---- MODULE Spec2Model ----
(***************************************************************************)
(* ChessScoreSheetScanner: the interactive quadrilateral engine.           *)
(*                                                                         *)
(*   src/ui/utils/Quadrilateral.py  class Quadrilateral                    *)
(*   src/ui/image_view.py           class ImageView (collection, events)   *)
(*   src/main.py                    MainWindow.set_mode/open_image/close   *)
(*                                                                         *)
(* A point is a pair <<x, y>> of integers.  An optional value (Python's    *)
(* None or a value) is the empty tuple or a one-element tuple.  Indices    *)
(* are 0-based as in the source; a Python list l is a sequence s with      *)
(* l[i] = s[i+1].                                                          *)
(***************************************************************************)
EXTENDS Integers, Sequences, FiniteSets, TLC

VARIABLES
    scene,                      \* the pointer positions and scene extent explored
    image_loaded,               \* ImageView.image_loaded
    mode,                       \* ImageView.mode
    quadrilaterals,             \* ImageView.quadrilaterals
    drawing_quadrilateral,      \* ImageView.drawing_quadrilateral
    selected_quadrilateral_id,  \* ImageView.selected_quadrilateral_id
    dragging_quadrilateral,     \* ImageView.dragging_quadrilateral
    dragging_point_id,          \* ImageView.dragging_point_id
    last_mouse_pos,             \* ImageView.last_mouse_pos
    quad,                       \* a Quadrilateral object driven through its methods
    call,                       \* the method call about to run on quad, with its arguments
    ret,                        \* the value returned by the last method call on quad
    last_call,                  \* the last method call that ran on quad, when it is recorded
    cv_in,                      \* the argument of is_convex
    cv_out                      \* the result of is_convex on a reordering of cv_in

vars == <<scene, image_loaded, mode, quadrilaterals, drawing_quadrilateral,
          selected_quadrilateral_id, dragging_quadrilateral, dragging_point_id,
          last_mouse_pos, quad, call, ret, last_call, cv_in, cv_out>>

viewVars == <<image_loaded, mode, quadrilaterals, drawing_quadrilateral,
              selected_quadrilateral_id, dragging_quadrilateral, dragging_point_id,
              last_mouse_pos>>

(***************************************************************************)
(* Optional values                                                         *)
(***************************************************************************)
None == <<>>

Some(v) == <<v>>

Val(o) == o[1]

(***************************************************************************)
(* Bounds of the exploration                                               *)
(***************************************************************************)
\* Most completed quadrilaterals the view holds in the two-shape scene.
MaxQuads == 2

\* Largest scene coordinate of the two-shape scene.
CoordMax == 10

\* Most completed quadrilaterals the view holds in the wide scene.
WideMaxQuads == 1

\* Largest scene coordinate of the wide scene.
WideCoordMax == 15

\* Pointer positions: the corners of a 10 x 10 square, and its centre.
CornerPts == {<<0, 0>>, <<10, 0>>, <<10, 10>>, <<0, 10>>}

CentrePt == <<5, 5>>

\* Two shapes, the pointer on the four corners.
SmallScene == [pts |-> CornerPts, lo |-> 0, hi |-> CoordMax, max_quads |-> MaxQuads]

\* One shape, the pointer on the corners and the centre, room to translate.
WideScene == [pts |-> CornerPts \cup {CentrePt},
              lo |-> 0, hi |-> WideCoordMax, max_quads |-> WideMaxQuads]

\* Largest scene coordinate of the tilted scene.
TiltCoordMax == 40

\* Pointer positions of the tilted scene, in boundary order.
TiltPts == {<<0, 0>>, <<10, 20>>, <<30, 40>>, <<40, 30>>}

\* One shape, the pointer on the four corners of the tilted quadrilateral.
TiltScene == [pts |-> TiltPts, lo |-> 0, hi |-> TiltCoordMax, max_quads |-> WideMaxQuads]

\* A pointer position on the top side of the square, closer than
\* CLOSE_POINT_DISTANCE to both of its ends and nearer to the left one.
NearPt == <<4, 0>>

\* One shape, the pointer on the corners and on the point between two of them.
NearScene == [pts |-> CornerPts \cup {NearPt},
              lo |-> 0, hi |-> CoordMax, max_quads |-> WideMaxQuads]

\* Points handed to the methods of a single Quadrilateral and to is_convex: a
\* 3 x 3 lattice, neighbours in a row or column closer than CLOSE_POINT_DISTANCE.
QPts == {<<x * 5, y * 5>> : x \in 0..2, y \in 0..2}

\* Largest scene coordinate of the scenario scene.
ScenarioCoordMax == 105

\* Largest number of rows or columns asked of get_internal_rows and
\* get_internal_cols.
MaxCount == 4

\* Indices handed to update_point, in and out of range.
QIds == -1..4

(***************************************************************************)
(* QPointF arithmetic                                                      *)
(***************************************************************************)
Abs(x) == IF x < 0 THEN -x ELSE x

Min(a, b) == IF a <= b THEN a ELSE b

Max(a, b) == IF a >= b THEN a ELSE b

PtAdd(a, b) == <<a[1] + b[1], a[2] + b[2]>>

PtSub(a, b) == <<a[1] - b[1], a[2] - b[2]>>

manhattanLength(p) == Abs(p[1]) + Abs(p[2])

(***************************************************************************)
(* class Quadrilateral                                                     *)
(***************************************************************************)
NB_SIDE == 4

CLOSE_POINT_DISTANCE == 10

\* Quadrilateral.__init__
NewQuadrilateral ==
    [quadrilateral_points |-> <<>>,
     drawing_complete     |-> FALSE,
     is_selected          |-> FALSE,
     top_left_id          |-> None,
     top_right_id         |-> None,
     bottom_left_id       |-> None,
     bottom_right_id      |-> None,
     quadrilateral_id     |-> None]

\* find_close_corner that looks at the first stored point only.
find_close_corner_first_only(q, point) ==
    LET pts == q.quadrilateral_points
    IN  IF Len(pts) > 0 /\ manhattanLength(PtSub(point, pts[1])) < CLOSE_POINT_DISTANCE
        THEN Some(0)
        ELSE None

\* find_close_corner that counts a point at exactly CLOSE_POINT_DISTANCE as close.
find_close_corner_inclusive(q, point) ==
    LET pts   == q.quadrilateral_points
        close == {i \in 0..(Len(pts) - 1) :
                    manhattanLength(PtSub(point, pts[i + 1])) <= CLOSE_POINT_DISTANCE}
    IN  IF close = {} THEN None
        ELSE Some(CHOOSE i \in close : \A j \in close : i <= j)

\* The first index whose point is closer than CLOSE_POINT_DISTANCE, or None.
find_close_corner(q, point) ==
    LET pts   == q.quadrilateral_points
        close == {i \in 0..(Len(pts) - 1) :
                    manhattanLength(PtSub(point, pts[i + 1])) < CLOSE_POINT_DISTANCE}
    IN  IF close = {} THEN None
        ELSE Some(CHOOSE i \in close : \A j \in close : i <= j)

cross(a, b, c) ==
    LET abx == b[1] - a[1]
        aby == b[2] - a[2]
        bcx == c[1] - b[1]
        bcy == c[2] - b[2]
    IN  abx * bcy - aby * bcx

is_convex(points) ==
    IF Len(points) # 4 THEN FALSE
    ELSE LET signs == [i \in 0..3 |->
                         cross(points[i + 1], points[((i + 1) % 4) + 1],
                               points[((i + 2) % 4) + 1]) > 0]
         IN  (\A i \in 0..3 : signs[i]) \/ ~(\E i \in 0..3 : signs[i])

\* sorted(range(4), key=y): Python's sort is stable, ties keep index order.
sorted_indices(pts) ==
    LET Before(j, i) == \/ pts[j + 1][2] < pts[i + 1][2]
                        \/ pts[j + 1][2] = pts[i + 1][2] /\ j < i
        rank(i) == Cardinality({j \in 0..3 : Before(j, i)})
    IN  [k \in 0..3 |-> CHOOSE i \in 0..3 : rank(i) = k]

\* update_corner_ids that takes the y-sorted order as left and right, with no
\* comparison of x.
update_corner_ids_no_x(q) ==
    IF ~q.drawing_complete THEN q
    ELSE LET s == sorted_indices(q.quadrilateral_points)
         IN  [q EXCEPT
                !.top_left_id     = Some(s[0]),
                !.top_right_id    = Some(s[1]),
                !.bottom_left_id  = Some(s[2]),
                !.bottom_right_id = Some(s[3])]

\* update_corner_ids whose bottom pair starts one place early in the sorted
\* order, overlapping the top pair.
update_corner_ids_overlapping(q) ==
    IF ~q.drawing_complete THEN q
    ELSE LET pts == q.quadrilateral_points
             s   == sorted_indices(pts)
             topOrdered    == pts[s[0] + 1][1] <= pts[s[1] + 1][1]
             bottomOrdered == pts[s[1] + 1][1] <= pts[s[2] + 1][1]
         IN  [q EXCEPT
                !.top_left_id     = Some(IF topOrdered THEN s[0] ELSE s[1]),
                !.top_right_id    = Some(IF topOrdered THEN s[1] ELSE s[0]),
                !.bottom_left_id  = Some(IF bottomOrdered THEN s[1] ELSE s[2]),
                !.bottom_right_id = Some(IF bottomOrdered THEN s[2] ELSE s[1])]

update_corner_ids(q) ==
    IF ~q.drawing_complete THEN q
    ELSE LET pts == q.quadrilateral_points
             s   == sorted_indices(pts)
             topOrdered    == pts[s[0] + 1][1] <= pts[s[1] + 1][1]
             bottomOrdered == pts[s[2] + 1][1] <= pts[s[3] + 1][1]
         IN  [q EXCEPT
                !.top_left_id     = Some(IF topOrdered THEN s[0] ELSE s[1]),
                !.top_right_id    = Some(IF topOrdered THEN s[1] ELSE s[0]),
                !.bottom_left_id  = Some(IF bottomOrdered THEN s[2] ELSE s[3]),
                !.bottom_right_id = Some(IF bottomOrdered THEN s[3] ELSE s[2])]

\* The result of a method that mutates the quadrilateral and returns a code.
Result(code, q) == [ret |-> code, q |-> q]

\* append_point_to_quadrilateral without the proximity check.
append_point_no_proximity(q, new_point) ==
    IF q.drawing_complete THEN Result(-1, q)
    ELSE LET temp_points == Append(q.quadrilateral_points, new_point)
         IN  IF Len(temp_points) = NB_SIDE /\ ~is_convex(temp_points)
             THEN Result(-1, q)
             ELSE LET q1 == [q EXCEPT !.quadrilateral_points = temp_points]
                  IN  IF Len(temp_points) = NB_SIDE
                      THEN Result(0, update_corner_ids(
                                        [q1 EXCEPT !.drawing_complete = TRUE]))
                      ELSE Result(0, q1)

\* append_point_to_quadrilateral without the convexity check of the 4th point.
append_point_no_convexity(q, new_point) ==
    IF q.drawing_complete THEN Result(-1, q)
    ELSE IF find_close_corner(q, new_point) # None THEN Result(-1, q)
    ELSE LET temp_points == Append(q.quadrilateral_points, new_point)
             q1 == [q EXCEPT !.quadrilateral_points = temp_points]
         IN  IF Len(temp_points) = NB_SIDE
             THEN Result(0, update_corner_ids([q1 EXCEPT !.drawing_complete = TRUE]))
             ELSE Result(0, q1)

\* append_point_to_quadrilateral that puts the new point in front of the others.
append_point_in_front(q, new_point) ==
    IF q.drawing_complete THEN Result(-1, q)
    ELSE IF find_close_corner(q, new_point) # None THEN Result(-1, q)
    ELSE LET temp_points == <<new_point>> \o q.quadrilateral_points
         IN  IF Len(temp_points) = NB_SIDE /\ ~is_convex(temp_points)
             THEN Result(-1, q)
             ELSE LET q1 == [q EXCEPT !.quadrilateral_points = temp_points]
                  IN  IF Len(temp_points) = NB_SIDE
                      THEN Result(0, update_corner_ids(
                                        [q1 EXCEPT !.drawing_complete = TRUE]))
                      ELSE Result(0, q1)

append_point_to_quadrilateral(q, new_point) ==
    IF q.drawing_complete THEN Result(-1, q)
    ELSE IF find_close_corner(q, new_point) # None THEN Result(-1, q)
    ELSE LET temp_points == Append(q.quadrilateral_points, new_point)
         IN  IF Len(temp_points) = NB_SIDE /\ ~is_convex(temp_points)
             THEN Result(-1, q)
             ELSE LET q1 == [q EXCEPT !.quadrilateral_points = temp_points]
                  IN  IF Len(temp_points) = NB_SIDE
                      THEN Result(0, update_corner_ids(
                                        [q1 EXCEPT !.drawing_complete = TRUE]))
                      ELSE Result(0, q1)

\* update_point without the convexity gate.
update_point_unchecked(q, point_id, new_point_value) ==
    IF ~q.drawing_complete THEN Result(-1, q)
    ELSE IF ~(0 <= point_id /\ point_id < NB_SIDE) THEN Result(-1, q)
    ELSE Result(0, update_corner_ids(
                [q EXCEPT !.quadrilateral_points[point_id + 1] = new_point_value]))

\* update_point that forgets to recompute the corner roles.
update_point_stale_roles(q, point_id, new_point_value) ==
    IF ~q.drawing_complete THEN Result(-1, q)
    ELSE IF ~(0 <= point_id /\ point_id < NB_SIDE) THEN Result(-1, q)
    ELSE LET temp_points ==
                 [q.quadrilateral_points EXCEPT ![point_id + 1] = new_point_value]
         IN  IF ~is_convex(temp_points) THEN Result(-1, q)
             ELSE Result(0, [q EXCEPT !.quadrilateral_points = temp_points])

\* update_point that also refuses a position closer than CLOSE_POINT_DISTANCE
\* to another corner.
update_point_separated(q, point_id, new_point_value) ==
    IF ~q.drawing_complete THEN Result(-1, q)
    ELSE IF ~(0 <= point_id /\ point_id < NB_SIDE) THEN Result(-1, q)
    ELSE LET temp_points == [q.quadrilateral_points EXCEPT ![point_id + 1] = new_point_value]
         IN  IF \E k \in 1..NB_SIDE :
                   /\ k # point_id + 1
                   /\ manhattanLength(PtSub(new_point_value, temp_points[k])) < CLOSE_POINT_DISTANCE
             THEN Result(-1, q)
             ELSE IF ~is_convex(temp_points) THEN Result(-1, q)
             ELSE Result(0, update_corner_ids([q EXCEPT !.quadrilateral_points = temp_points]))

update_point(q, point_id, new_point_value) ==
    IF ~q.drawing_complete THEN Result(-1, q)
    ELSE IF ~(0 <= point_id /\ point_id < NB_SIDE) THEN Result(-1, q)
    ELSE LET temp_points ==
                 [q.quadrilateral_points EXCEPT ![point_id + 1] = new_point_value]
         IN  IF ~is_convex(temp_points) THEN Result(-1, q)
             ELSE Result(0, update_corner_ids(
                               [q EXCEPT !.quadrilateral_points = temp_points]))

\* One edge of the ray casting loop: whether the edge p1 -> p2 toggles inside.
\* x <= xinters is decided exactly: with d = p2y - p1y # 0,
\*   x <= (y - p1y) * (p2x - p1x) / d + p1x.
edge_toggles(point, p1, p2) ==
    LET x == point[1]
        y == point[2]
        d == p2[2] - p1[2]
        n == (y - p1[2]) * (p2[1] - p1[1])
    IN  /\ y > Min(p1[2], p2[2])
        /\ y <= Max(p1[2], p2[2])
        /\ x <= Max(p1[1], p2[1])
        /\ \/ p1[1] = p2[1]
           \/ d > 0 /\ (x - p1[1]) * d <= n
           \/ d < 0 /\ (x - p1[1]) * d >= n

\* is_point_in_quadrilateral whose loop stops before the closing edge.
is_point_in_quadrilateral_open(q, point) ==
    IF ~q.drawing_complete THEN FALSE
    ELSE LET pts == q.quadrilateral_points
             p1(i) == IF i = 0 THEN pts[1] ELSE pts[((i - 1) % NB_SIDE) + 1]
             p2(i) == pts[(i % NB_SIDE) + 1]
             hits  == {i \in 0..(NB_SIDE - 1) : edge_toggles(point, p1(i), p2(i))}
         IN  Cardinality(hits) % 2 = 1

\* Quadrilateral.is_point_in_quadrilateral: i = 0 pairs points[0] with itself,
\* then the four edges follow.
is_point_in_quadrilateral(q, point) ==
    IF ~q.drawing_complete THEN FALSE
    ELSE LET pts == q.quadrilateral_points
             p1(i) == IF i = 0 THEN pts[1] ELSE pts[((i - 1) % NB_SIDE) + 1]
             p2(i) == pts[(i % NB_SIDE) + 1]
             hits  == {i \in 0..NB_SIDE : edge_toggles(point, p1(i), p2(i))}
         IN  Cardinality(hits) % 2 = 1

RECURSIVE move_from(_, _, _)
\* The loop of move_delta from index i on; orig is the list being enumerated.
move_from(q, delta, i) ==
    IF i >= Len(q.quadrilateral_points) THEN q
    ELSE move_from(update_point(q, i, PtAdd(q.quadrilateral_points[i + 1], delta)).q,
                   delta, i + 1)

\* move_delta that moves the first point only.
move_delta_first_only(q, delta) ==
    IF Len(q.quadrilateral_points) = 0 THEN q
    ELSE update_point(q, 0, PtAdd(q.quadrilateral_points[1], delta)).q

move_delta(q, delta) == move_from(q, delta, 0)

\* The point at index corner_id, or None for None and for an index out of range.
get_corner(q, corner_id) ==
    IF corner_id = None THEN None
    ELSE IF ~(0 <= Val(corner_id) /\ Val(corner_id) < NB_SIDE) THEN None
    ELSE Some(q.quadrilateral_points[Val(corner_id) + 1])

get_top_left(q) == get_corner(q, q.top_left_id)

get_top_right(q) == get_corner(q, q.top_right_id)

get_bottom_left(q) == get_corner(q, q.bottom_left_id)

get_bottom_right(q) == get_corner(q, q.bottom_right_id)

\* A point with fractional coordinates, <<x * den, y * den, den>>: the QPointF
\* pt * (num / den).
PtTimes(pt, num, den) == <<pt[1] * num, pt[2] * num, den>>

\* The sum of two points with fractional coordinates.
FracPtAdd(a, b) ==
    <<a[1] * b[3] + b[1] * a[3], a[2] * b[3] + b[2] * a[3], a[3] * b[3]>>

\* get_internal_rows that also returns the top and the bottom edge.
get_internal_rows_with_edges(q, nb_internal_rows) ==
    LET pt_tl == get_top_left(q)
        pt_tr == get_top_right(q)
        pt_bl == get_bottom_left(q)
        pt_br == get_bottom_right(q)
    IN  IF pt_tl = None \/ pt_tr = None \/ pt_bl = None \/ pt_br = None THEN None
        ELSE IF nb_internal_rows < 1 THEN None
        ELSE IF nb_internal_rows = 1 THEN Some(<<>>)
        ELSE Some([k \in 1..(nb_internal_rows + 1) |->
                     LET r == k - 1
                     IN  <<FracPtAdd(PtTimes(Val(pt_tl), nb_internal_rows - r, nb_internal_rows),
                                     PtTimes(Val(pt_bl), r, nb_internal_rows)),
                           FracPtAdd(PtTimes(Val(pt_tr), nb_internal_rows - r, nb_internal_rows),
                                     PtTimes(Val(pt_br), r, nb_internal_rows))>>])

\* t = r / nb_internal_rows and 1 - t = (nb_internal_rows - r) / nb_internal_rows,
\* kept as fractions; the list is None or a sequence of [left, right] pairs.
get_internal_rows(q, nb_internal_rows) ==
    LET pt_tl == get_top_left(q)
        pt_tr == get_top_right(q)
        pt_bl == get_bottom_left(q)
        pt_br == get_bottom_right(q)
    IN  IF pt_tl = None \/ pt_tr = None \/ pt_bl = None \/ pt_br = None THEN None
        ELSE IF nb_internal_rows < 1 THEN None
        ELSE IF nb_internal_rows = 1 THEN Some(<<>>)
        ELSE Some([r \in 1..(nb_internal_rows - 1) |->
                     <<FracPtAdd(PtTimes(Val(pt_tl), nb_internal_rows - r, nb_internal_rows),
                                 PtTimes(Val(pt_bl), r, nb_internal_rows)),
                       FracPtAdd(PtTimes(Val(pt_tr), nb_internal_rows - r, nb_internal_rows),
                                 PtTimes(Val(pt_br), r, nb_internal_rows))>>])

get_internal_cols(q, nb_internal_cols) ==
    LET pt_tl == get_top_left(q)
        pt_tr == get_top_right(q)
        pt_bl == get_bottom_left(q)
        pt_br == get_bottom_right(q)
    IN  IF pt_tl = None \/ pt_tr = None \/ pt_bl = None \/ pt_br = None THEN None
        ELSE IF nb_internal_cols < 1 THEN None
        ELSE IF nb_internal_cols = 1 THEN Some(<<>>)
        ELSE Some([r \in 1..(nb_internal_cols - 1) |->
                     <<FracPtAdd(PtTimes(Val(pt_tl), nb_internal_cols - r, nb_internal_cols),
                                 PtTimes(Val(pt_tr), r, nb_internal_cols)),
                       FracPtAdd(PtTimes(Val(pt_bl), nb_internal_cols - r, nb_internal_cols),
                                 PtTimes(Val(pt_br), r, nb_internal_cols))>>])

(***************************************************************************)
(* class ImageView: the state as one record, and its methods as functions  *)
(* from the state before a call to the state after it.                     *)
(***************************************************************************)
DRAW == "Draw"

EDIT == "Edit"

View ==
    [image_loaded              |-> image_loaded,
     mode                      |-> mode,
     quadrilaterals            |-> quadrilaterals,
     drawing_quadrilateral     |-> drawing_quadrilateral,
     selected_quadrilateral_id |-> selected_quadrilateral_id,
     dragging_quadrilateral    |-> dragging_quadrilateral,
     dragging_point_id         |-> dragging_point_id,
     last_mouse_pos            |-> last_mouse_pos]

\* ImageView.__init__
NewView ==
    [image_loaded              |-> FALSE,
     mode                      |-> EDIT,
     quadrilaterals            |-> <<>>,
     drawing_quadrilateral     |-> None,
     selected_quadrilateral_id |-> None,
     dragging_quadrilateral    |-> FALSE,
     dragging_point_id         |-> None,
     last_mouse_pos            |-> None]

get_nb_quadrilateral(v) == Len(v.quadrilaterals)

unselect_all(v) ==
    [v EXCEPT
       !.selected_quadrilateral_id = None,
       !.quadrilaterals = [i \in 1..Len(v.quadrilaterals) |->
                             [v.quadrilaterals[i] EXCEPT !.is_selected = FALSE]]]

reset_edit(v) ==
    [unselect_all(v) EXCEPT
       !.dragging_quadrilateral = FALSE,
       !.dragging_point_id = None,
       !.last_mouse_pos = None]

\* reset_drawing_and_edit that resets the edit state only.
reset_edit_only(v) == reset_edit(v)

reset_drawing_and_edit(v) ==
    reset_edit([v EXCEPT !.drawing_quadrilateral = None])

\* set_mode that resets the drawing and the selection but not the drag state.
set_mode_keep_drag(v, target_mode) ==
    unselect_all([v EXCEPT !.mode = target_mode, !.drawing_quadrilateral = None])

\* set_mode that resets the selection and the drag state but keeps the shape
\* in progress.
set_mode_keep_drawing(v, target_mode) ==
    reset_edit([v EXCEPT !.mode = target_mode])

\* set_mode that changes the mode and nothing else.
set_mode_mode_only(v, target_mode) == [v EXCEPT !.mode = target_mode]

\* ImageView.set_mode; MainWindow.set_mode checks the mode's button and calls it.
set_mode(v, target_mode) ==
    unselect_all(reset_drawing_and_edit([v EXCEPT !.mode = target_mode]))

\* reset_all that keeps the stored shapes.
reset_all_keep_items(v) == reset_drawing_and_edit(set_mode(v, EDIT))

reset_all(v) ==
    reset_drawing_and_edit([set_mode(v, EDIT) EXCEPT !.quadrilaterals = <<>>])

\* close_image that drops the image and keeps everything else.
close_image_flag_only(v) == [v EXCEPT !.image_loaded = FALSE]

close_image(v) == reset_all([v EXCEPT !.image_loaded = FALSE])

load_image(v) == [close_image(v) EXCEPT !.image_loaded = TRUE]

\* MainWindow.open_image with a file chosen.
open_image(v) == set_mode(load_image(v), EDIT)

update_quadrilateral_ids(v) ==
    [v EXCEPT
       !.quadrilaterals = [i \in 1..Len(v.quadrilaterals) |->
                             [v.quadrilaterals[i] EXCEPT !.quadrilateral_id = Some(i - 1)]]]

\* A deletion that drops the last element whatever the index.
DelLast(l, i) == [k \in 1..(Len(l) - 1) |-> l[k]]

\* del l[i]
DelAt(l, i) == [k \in 1..(Len(l) - 1) |-> IF k < i + 1 THEN l[k] ELSE l[k + 1]]

\* delete_quadrilateral without update_quadrilateral_ids.
delete_quadrilateral_no_reindex(v, quadrilateral_id) ==
    IF ~(0 <= quadrilateral_id /\ quadrilateral_id < get_nb_quadrilateral(v))
    THEN Result(-1, v)
    ELSE Result(0, unselect_all(
                     [v EXCEPT !.quadrilaterals = DelAt(v.quadrilaterals, quadrilateral_id)]))

delete_quadrilateral(v, quadrilateral_id) ==
    IF ~(0 <= quadrilateral_id /\ quadrilateral_id < get_nb_quadrilateral(v))
    THEN Result(-1, v)
    ELSE Result(0, unselect_all(update_quadrilateral_ids(
                     [v EXCEPT !.quadrilaterals = DelAt(v.quadrilaterals, quadrilateral_id)])))

delete_selected_quadrilateral(v) ==
    IF v.selected_quadrilateral_id = None THEN Result(-1, v)
    ELSE delete_quadrilateral(v, Val(v.selected_quadrilateral_id))

\* add_drawing_quadrilateral that inserts the new shape at the front of the list.
add_drawing_quadrilateral_front(v) ==
    IF v.drawing_quadrilateral # None
    THEN LET v1 == update_quadrilateral_ids(
                     [v EXCEPT !.quadrilaterals =
                                 <<Val(v.drawing_quadrilateral)>> \o v.quadrilaterals])
         IN  Result(0, [set_mode(v1, EDIT) EXCEPT !.drawing_quadrilateral = None])
    ELSE Result(-1, v)

add_drawing_quadrilateral(v) ==
    IF v.drawing_quadrilateral # None
    THEN LET v1 == update_quadrilateral_ids(
                     [v EXCEPT !.quadrilaterals =
                                 Append(v.quadrilaterals, Val(v.drawing_quadrilateral))])
         IN  Result(0, [set_mode(v1, EDIT) EXCEPT !.drawing_quadrilateral = None])
    ELSE Result(-1, v)

\* set_selected_quadrilateral that raises the new flag and leaves the others.
set_selected_keep_flags(v, quadrilateral_id) ==
    IF quadrilateral_id = None THEN unselect_all(v)
    ELSE IF ~(0 <= Val(quadrilateral_id) /\ Val(quadrilateral_id) < get_nb_quadrilateral(v))
    THEN unselect_all(v)
    ELSE [v EXCEPT
            !.selected_quadrilateral_id = quadrilateral_id,
            !.quadrilaterals[Val(quadrilateral_id) + 1].is_selected = TRUE]

set_selected_quadrilateral(v, quadrilateral_id) ==
    IF quadrilateral_id = None THEN unselect_all(v)
    ELSE IF ~(0 <= Val(quadrilateral_id) /\ Val(quadrilateral_id) < get_nb_quadrilateral(v))
    THEN unselect_all(v)
    ELSE [v EXCEPT
            !.selected_quadrilateral_id = quadrilateral_id,
            !.quadrilaterals = [i \in 1..Len(v.quadrilaterals) |->
                                  [v.quadrilaterals[i] EXCEPT
                                     !.is_selected = (i - 1 = Val(quadrilateral_id))]]]

\* None, or the selected quadrilateral in a one-element tuple.
get_selected_quadrilateral(v) ==
    IF v.selected_quadrilateral_id = None THEN None
    ELSE Some(v.quadrilaterals[Val(v.selected_quadrilateral_id) + 1])

\* ImageView.is_point_in_quadrilateral
view_is_point_in_quadrilateral(v, point) ==
    LET selected_quadrilateral == get_selected_quadrilateral(v)
        others == {i \in 0..(Len(v.quadrilaterals) - 1) :
                     /\ Some(i) # v.selected_quadrilateral_id
                     /\ is_point_in_quadrilateral(v.quadrilaterals[i + 1], point)}
    IN  IF /\ selected_quadrilateral # None
           /\ is_point_in_quadrilateral(Val(selected_quadrilateral), point)
        THEN v.selected_quadrilateral_id
        ELSE IF others = {} THEN None
        ELSE Some(CHOOSE i \in others : \A j \in others : i <= j)

get_selected_quadrilateral_close_corner(v, point) ==
    LET selected_quadrilateral == get_selected_quadrilateral(v)
    IN  IF selected_quadrilateral # None
        THEN find_close_corner(Val(selected_quadrilateral), point)
        ELSE None

\* The selected quadrilateral replaced by q (a method call on the object in the list).
with_selected(v, q) ==
    [v EXCEPT !.quadrilaterals[Val(v.selected_quadrilateral_id) + 1] = q]

LeftButton == "LeftButton"

RightButton == "RightButton"

MiddleButton == "MiddleButton"

Buttons == {LeftButton, RightButton, MiddleButton}

Keys == {"Key_Delete", "Key_Backspace", "Key_A"}

\* mousePressEvent with a click on empty space clearing the selection.
mousePressEvent_click_away_unselects(v, mouse_position, button) ==
    IF ~v.image_loaded THEN v
    ELSE IF v.mode = DRAW THEN
        IF button = LeftButton THEN
            LET dq == IF v.drawing_quadrilateral = None
                      THEN NewQuadrilateral
                      ELSE Val(v.drawing_quadrilateral)
                q1 == append_point_to_quadrilateral(dq, mouse_position).q
                v1 == [v EXCEPT !.drawing_quadrilateral = Some(q1)]
            IN  IF q1.drawing_complete THEN add_drawing_quadrilateral(v1).q ELSE v1
        ELSE IF button = RightButton THEN reset_drawing_and_edit(v)
        ELSE v
    ELSE IF button = LeftButton THEN
        LET clicked_quadrilateral_id == view_is_point_in_quadrilateral(v, mouse_position)
            clicked_corner_id == get_selected_quadrilateral_close_corner(v, mouse_position)
        IN  IF clicked_corner_id = None /\ clicked_quadrilateral_id = None
            THEN unselect_all(v)
            ELSE IF clicked_corner_id # None THEN
                [v EXCEPT !.dragging_point_id = clicked_corner_id,
                          !.dragging_quadrilateral = FALSE,
                          !.last_mouse_pos = None]
            ELSE IF clicked_quadrilateral_id = v.selected_quadrilateral_id THEN
                [v EXCEPT !.dragging_point_id = None,
                          !.dragging_quadrilateral = TRUE,
                          !.last_mouse_pos = Some(mouse_position)]
            ELSE set_selected_quadrilateral(v, clicked_quadrilateral_id)
    ELSE v

\* mousePressEvent whose EDIT branch looks at the shape hit before the corner hit.
mousePressEvent_shape_first(v, mouse_position, button) ==
    IF ~v.image_loaded THEN v
    ELSE IF v.mode = DRAW THEN
        IF button = LeftButton THEN
            LET dq == IF v.drawing_quadrilateral = None
                      THEN NewQuadrilateral
                      ELSE Val(v.drawing_quadrilateral)
                q1 == append_point_to_quadrilateral(dq, mouse_position).q
                v1 == [v EXCEPT !.drawing_quadrilateral = Some(q1)]
            IN  IF q1.drawing_complete THEN add_drawing_quadrilateral(v1).q ELSE v1
        ELSE IF button = RightButton THEN reset_drawing_and_edit(v)
        ELSE v
    ELSE IF button = LeftButton THEN
        LET clicked_quadrilateral_id == view_is_point_in_quadrilateral(v, mouse_position)
            clicked_corner_id == get_selected_quadrilateral_close_corner(v, mouse_position)
        IN  IF clicked_corner_id = None /\ clicked_quadrilateral_id = None THEN v
            ELSE IF clicked_quadrilateral_id # None
                    /\ clicked_quadrilateral_id = v.selected_quadrilateral_id THEN
                [v EXCEPT !.dragging_point_id = None,
                          !.dragging_quadrilateral = TRUE,
                          !.last_mouse_pos = Some(mouse_position)]
            ELSE IF clicked_quadrilateral_id # None THEN
                set_selected_quadrilateral(v, clicked_quadrilateral_id)
            ELSE [v EXCEPT !.dragging_point_id = clicked_corner_id,
                           !.dragging_quadrilateral = FALSE,
                           !.last_mouse_pos = None]
    ELSE v

\* mouse_position is the event position already mapped to the scene.
mousePressEvent(v, mouse_position, button) ==
    IF ~v.image_loaded THEN v
    ELSE IF v.mode = DRAW THEN
        IF button = LeftButton THEN
            LET dq == IF v.drawing_quadrilateral = None
                      THEN NewQuadrilateral
                      ELSE Val(v.drawing_quadrilateral)
                q1 == append_point_to_quadrilateral(dq, mouse_position).q
                v1 == [v EXCEPT !.drawing_quadrilateral = Some(q1)]
            IN  IF q1.drawing_complete THEN add_drawing_quadrilateral(v1).q ELSE v1
        ELSE IF button = RightButton THEN reset_drawing_and_edit(v)
        ELSE v
    ELSE IF button = LeftButton THEN
        LET clicked_quadrilateral_id == view_is_point_in_quadrilateral(v, mouse_position)
            clicked_corner_id == get_selected_quadrilateral_close_corner(v, mouse_position)
        IN  IF clicked_corner_id = None /\ clicked_quadrilateral_id = None THEN v
            ELSE IF clicked_corner_id # None THEN
                [v EXCEPT !.dragging_point_id = clicked_corner_id,
                          !.dragging_quadrilateral = FALSE,
                          !.last_mouse_pos = None]
            ELSE IF clicked_quadrilateral_id = v.selected_quadrilateral_id THEN
                [v EXCEPT !.dragging_point_id = None,
                          !.dragging_quadrilateral = TRUE,
                          !.last_mouse_pos = Some(mouse_position)]
            ELSE set_selected_quadrilateral(v, clicked_quadrilateral_id)
    ELSE v

\* mouseMoveEvent with the anchor of a whole-shape drag left where the drag began.
mouseMoveEvent_keep_anchor(v, mouse_position) ==
    IF ~v.image_loaded THEN v
    ELSE IF v.mode = DRAW THEN v
    ELSE LET selected_quadrilateral == get_selected_quadrilateral(v)
         IN  IF selected_quadrilateral = None THEN v
             ELSE IF v.dragging_point_id # None THEN
                 with_selected(v, update_point(Val(selected_quadrilateral),
                                               Val(v.dragging_point_id),
                                               mouse_position).q)
             ELSE IF v.dragging_quadrilateral /\ v.last_mouse_pos # None THEN
                 with_selected(v, move_delta(Val(selected_quadrilateral),
                                             PtSub(mouse_position, Val(v.last_mouse_pos))))
             ELSE v

\* mouseMoveEvent whose corner drag acts on the first stored shape.
mouseMoveEvent_first_shape(v, mouse_position) ==
    IF ~v.image_loaded THEN v
    ELSE IF v.mode = DRAW THEN v
    ELSE LET selected_quadrilateral == get_selected_quadrilateral(v)
         IN  IF selected_quadrilateral = None THEN v
             ELSE IF v.dragging_point_id # None THEN
                 [v EXCEPT !.quadrilaterals[1] =
                              update_point(v.quadrilaterals[1],
                                           Val(v.dragging_point_id),
                                           mouse_position).q]
             ELSE IF v.dragging_quadrilateral /\ v.last_mouse_pos # None THEN
                 [with_selected(v, move_delta(Val(selected_quadrilateral),
                                              PtSub(mouse_position, Val(v.last_mouse_pos))))
                    EXCEPT !.last_mouse_pos = Some(mouse_position)]
             ELSE v

mouseMoveEvent(v, mouse_position) ==
    IF ~v.image_loaded THEN v
    ELSE IF v.mode = DRAW THEN v
    ELSE LET selected_quadrilateral == get_selected_quadrilateral(v)
         IN  IF selected_quadrilateral = None THEN v
             ELSE IF v.dragging_point_id # None THEN
                 with_selected(v, update_point(Val(selected_quadrilateral),
                                               Val(v.dragging_point_id),
                                               mouse_position).q)
             ELSE IF v.dragging_quadrilateral /\ v.last_mouse_pos # None THEN
                 [with_selected(v, move_delta(Val(selected_quadrilateral),
                                              PtSub(mouse_position, Val(v.last_mouse_pos))))
                    EXCEPT !.last_mouse_pos = Some(mouse_position)]
             ELSE v

\* mouseReleaseEvent that resets the dragged corner only.
mouseReleaseEvent_point_only(v) ==
    [v EXCEPT !.dragging_point_id = None]

mouseReleaseEvent(v) ==
    [v EXCEPT !.dragging_quadrilateral = FALSE,
              !.dragging_point_id = None,
              !.last_mouse_pos = None]

\* keyPressEvent that deletes the last shape when none is selected.
keyPressEvent_delete_last(v, key) ==
    IF key \in {"Key_Delete", "Key_Backspace"}
    THEN IF v.selected_quadrilateral_id = None
         THEN delete_quadrilateral(v, get_nb_quadrilateral(v) - 1).q
         ELSE delete_selected_quadrilateral(v).q
    ELSE v

keyPressEvent(v, key) ==
    IF key \in {"Key_Delete", "Key_Backspace"}
    THEN delete_selected_quadrilateral(v).q
    ELSE v

(***************************************************************************)
(* The view as a state machine: one action per event.                      *)
(***************************************************************************)
\* Every stored point lies in the scene.
InScene(v) ==
    /\ \A i \in 1..Len(v.quadrilaterals) :
          \A k \in 1..Len(v.quadrilaterals[i].quadrilateral_points) :
             LET pt == v.quadrilaterals[i].quadrilateral_points[k]
             IN  /\ scene.lo <= pt[1] /\ pt[1] <= scene.hi
                 /\ scene.lo <= pt[2] /\ pt[2] <= scene.hi

SetView(v) ==
    /\ InScene(v)
    /\ image_loaded' = v.image_loaded
    /\ mode' = v.mode
    /\ quadrilaterals' = v.quadrilaterals
    /\ drawing_quadrilateral' = v.drawing_quadrilateral
    /\ selected_quadrilateral_id' = v.selected_quadrilateral_id
    /\ dragging_quadrilateral' = v.dragging_quadrilateral
    /\ dragging_point_id' = v.dragging_point_id
    /\ last_mouse_pos' = v.last_mouse_pos
    /\ UNCHANGED <<scene, quad, call, ret, last_call, cv_in, cv_out>>

InitView ==
    /\ image_loaded = NewView.image_loaded
    /\ mode = NewView.mode
    /\ quadrilaterals = NewView.quadrilaterals
    /\ drawing_quadrilateral = NewView.drawing_quadrilateral
    /\ selected_quadrilateral_id = NewView.selected_quadrilateral_id
    /\ dragging_quadrilateral = NewView.dragging_quadrilateral
    /\ dragging_point_id = NewView.dragging_point_id
    /\ last_mouse_pos = NewView.last_mouse_pos

\* The Quadrilateral and is_convex harnesses at rest.
InitQuad == quad = NewQuadrilateral /\ call = None /\ ret = None /\ last_call = None

InitConvex == cv_in = <<>> /\ cv_out = None

OpenImage == SetView(open_image(View))

CloseImage == SetView(close_image(View))

\* A click on a mode button; drawing starts only while the view has room for a shape.
SetMode ==
    \E m \in {DRAW, EDIT} :
       /\ m = DRAW => Len(quadrilaterals) < scene.max_quads
       /\ SetView(set_mode(View, m))

MousePress == \E p \in scene.pts, b \in Buttons : SetView(mousePressEvent(View, p, b))

MouseMove == \E p \in scene.pts : SetView(mouseMoveEvent(View, p))

MouseRelease == SetView(mouseReleaseEvent(View))

KeyPress == \E k \in Keys : SetView(keyPressEvent(View, k))

Init == scene = SmallScene /\ InitView /\ InitQuad /\ InitConvex

Next ==
    \/ OpenImage
    \/ CloseImage
    \/ SetMode
    \/ MousePress
    \/ MouseMove
    \/ MouseRelease
    \/ KeyPress

Spec == Init /\ [][Next]_vars

\* The same machine in the wide scene: one shape, room to translate it.
InitWide == scene = WideScene /\ InitView /\ InitQuad /\ InitConvex

SpecWide == InitWide /\ [][Next]_vars

\* The same machine in the tilted scene: one shape, the pointer on the corners
\* of a thin strictly convex quadrilateral lying along the diagonal of the
\* image, no two corners on the same row or column.
InitTilt == scene = TiltScene /\ InitView /\ InitQuad /\ InitConvex

SpecTilt == InitTilt /\ [][Next]_vars

(***************************************************************************)
(* The wide scene with each event recorded in last_call: the handler, its  *)
(* arguments and the number of stored shapes before it ran.                *)
(***************************************************************************)
Event(method, args) ==
    Some([method |-> method, args |-> args, nb_before |-> Len(quadrilaterals)])

Logged(method, args, v) ==
    /\ InScene(v)
    /\ image_loaded' = v.image_loaded
    /\ mode' = v.mode
    /\ quadrilaterals' = v.quadrilaterals
    /\ drawing_quadrilateral' = v.drawing_quadrilateral
    /\ selected_quadrilateral_id' = v.selected_quadrilateral_id
    /\ dragging_quadrilateral' = v.dragging_quadrilateral
    /\ dragging_point_id' = v.dragging_point_id
    /\ last_mouse_pos' = v.last_mouse_pos
    /\ last_call' = Event(method, args)
    /\ UNCHANGED <<scene, quad, call, ret, cv_in, cv_out>>

LogOpenImage == Logged("open_image", <<>>, open_image(View))

LogCloseImage == Logged("close_image", <<>>, close_image(View))

LogSetMode ==
    \E m \in {DRAW, EDIT} :
       /\ m = DRAW => Len(quadrilaterals) < scene.max_quads
       /\ Logged("set_mode", <<m>>, set_mode(View, m))

LogMousePress ==
    \E p \in scene.pts, b \in Buttons :
       Logged("mousePressEvent", <<p, b>>, mousePressEvent(View, p, b))

LogMouseMove ==
    \E p \in scene.pts : Logged("mouseMoveEvent", <<p>>, mouseMoveEvent(View, p))

LogMouseRelease == Logged("mouseReleaseEvent", <<>>, mouseReleaseEvent(View))

LogKeyPress == \E k \in Keys : Logged("keyPressEvent", <<k>>, keyPressEvent(View, k))

NextLog ==
    \/ LogOpenImage
    \/ LogCloseImage
    \/ LogSetMode
    \/ LogMousePress
    \/ LogMouseMove
    \/ LogMouseRelease
    \/ LogKeyPress

SpecLog == InitWide /\ [][NextLog]_vars

\* The same recorded events in the scene whose pointer can stand between two
\* corners of the square.
InitNear == scene = NearScene /\ InitView /\ InitQuad /\ InitConvex

SpecNear == InitNear /\ [][NextLog]_vars

(***************************************************************************)
(* A 100 x 100 scene with one shape.  last_call counts how many events of  *)
(* the run so far are, in order, the events of Script; it is None once the *)
(* run has left the script.                                                *)
(***************************************************************************)
\* Pointer positions: the corners of the big square, its centre and the two
\* positions the pointer is moved to.
ScenarioPts ==
    {<<0, 0>>, <<100, 0>>, <<100, 100>>, <<0, 100>>, <<50, 50>>, <<20, 20>>, <<55, 55>>}

ScenarioScene ==
    [pts |-> ScenarioPts, lo |-> 0, hi |-> ScenarioCoordMax, max_quads |-> WideMaxQuads]

Ev(method, args) == [method |-> method, args |-> args]

\* A click: the button goes down and up at p.
Click(p) == <<Ev("mousePressEvent", <<p, LeftButton>>), Ev("mouseReleaseEvent", <<>>)>>

\* Open an image, enter DRAW mode, click the four corners, click inside the
\* shape, drag the corner at (0,0) to (20,20), drag the body by (5,5),
\* press Delete.
Script ==
    <<Ev("open_image", <<>>), Ev("set_mode", <<DRAW>>)>>
       \o Click(<<0, 0>>) \o Click(<<100, 0>>) \o Click(<<100, 100>>) \o Click(<<0, 100>>)
       \o Click(<<50, 50>>)
       \o <<Ev("mousePressEvent", <<<<0, 0>>, LeftButton>>),
            Ev("mouseMoveEvent", <<<<20, 20>>>>),
            Ev("mouseReleaseEvent", <<>>)>>
       \o <<Ev("mousePressEvent", <<<<50, 50>>, LeftButton>>),
            Ev("mouseMoveEvent", <<<<55, 55>>>>),
            Ev("mouseReleaseEvent", <<>>)>>
       \o <<Ev("keyPressEvent", <<"Key_Delete">>)>>

\* The count after this event: one more while the run follows the script.
Follow(method, args) ==
    IF /\ last_call # None
       /\ Val(last_call) < Len(Script)
       /\ Script[Val(last_call) + 1] = Ev(method, args)
    THEN Some(Val(last_call) + 1)
    ELSE None

Played(method, args, v) ==
    /\ InScene(v)
    /\ image_loaded' = v.image_loaded
    /\ mode' = v.mode
    /\ quadrilaterals' = v.quadrilaterals
    /\ drawing_quadrilateral' = v.drawing_quadrilateral
    /\ selected_quadrilateral_id' = v.selected_quadrilateral_id
    /\ dragging_quadrilateral' = v.dragging_quadrilateral
    /\ dragging_point_id' = v.dragging_point_id
    /\ last_mouse_pos' = v.last_mouse_pos
    /\ last_call' = Follow(method, args)
    /\ UNCHANGED <<scene, quad, call, ret, cv_in, cv_out>>

PlayOpenImage == Played("open_image", <<>>, open_image(View))

PlayCloseImage == Played("close_image", <<>>, close_image(View))

PlaySetMode ==
    \E m \in {DRAW, EDIT} :
       /\ m = DRAW => Len(quadrilaterals) < scene.max_quads
       /\ Played("set_mode", <<m>>, set_mode(View, m))

PlayMousePress ==
    \E p \in scene.pts, b \in Buttons :
       Played("mousePressEvent", <<p, b>>, mousePressEvent(View, p, b))

PlayMouseMove ==
    \E p \in scene.pts : Played("mouseMoveEvent", <<p>>, mouseMoveEvent(View, p))

PlayMouseRelease == Played("mouseReleaseEvent", <<>>, mouseReleaseEvent(View))

PlayKeyPress == \E k \in Keys : Played("keyPressEvent", <<k>>, keyPressEvent(View, k))

NextScenario ==
    \/ PlayOpenImage
    \/ PlayCloseImage
    \/ PlaySetMode
    \/ PlayMousePress
    \/ PlayMouseMove
    \/ PlayMouseRelease
    \/ PlayKeyPress

InitScenario ==
    /\ scene = ScenarioScene
    /\ InitView
    /\ quad = NewQuadrilateral
    /\ call = None
    /\ ret = None
    /\ last_call = Some(0)
    /\ InitConvex

SpecScenario == InitScenario /\ [][NextScenario]_vars

(***************************************************************************)
(* The view's methods called directly: delete_quadrilateral with any id.   *)
(***************************************************************************)
DeleteIds == -1..MaxQuads

DeleteAt(id) == SetView(delete_quadrilateral(View, id).q)

DeleteCall == \E id \in DeleteIds : DeleteAt(id)

NextApi == Next \/ DeleteCall

SpecApi == Init /\ [][NextApi]_vars

(***************************************************************************)
(* The wide scene with each event recorded, and delete_quadrilateral       *)
(* called directly, its argument and return value recorded as well.        *)
(***************************************************************************)
LogDeleteCall ==
    \E id \in DeleteIds :
       LET r == delete_quadrilateral(View, id)
       IN  /\ image_loaded' = r.q.image_loaded
           /\ mode' = r.q.mode
           /\ quadrilaterals' = r.q.quadrilaterals
           /\ drawing_quadrilateral' = r.q.drawing_quadrilateral
           /\ selected_quadrilateral_id' = r.q.selected_quadrilateral_id
           /\ dragging_quadrilateral' = r.q.dragging_quadrilateral
           /\ dragging_point_id' = r.q.dragging_point_id
           /\ last_mouse_pos' = r.q.last_mouse_pos
           /\ last_call' = Some([method    |-> "delete_quadrilateral",
                                 args      |-> <<id>>,
                                 nb_before |-> Len(quadrilaterals),
                                 code      |-> r.ret])
           /\ UNCHANGED <<scene, quad, call, ret, cv_in, cv_out>>

NextApiLog == NextLog \/ LogDeleteCall

SpecApiLog == InitWide /\ [][NextApiLog]_vars

(***************************************************************************)
(* One Quadrilateral object driven through its methods.                    *)
(***************************************************************************)
Returned(method, code) == Some([method |-> method, code |-> code])

Calling(method, args) == Some([method |-> method, args |-> args])

\* The caller picks the next call and its arguments.
QRequest ==
    /\ call = None
    /\ \/ \E p \in QPts : call' = Calling("append_point_to_quadrilateral", <<p>>)
       \/ \E i \in QIds, p \in QPts : call' = Calling("update_point", <<i, p>>)
    /\ UNCHANGED <<scene, quad, ret, last_call, cv_in, cv_out>>
    /\ UNCHANGED viewVars

\* The call runs: the object is mutated and the code returned.
QuadCall(method, r) ==
    /\ quad' = r.q
    /\ ret' = Returned(method, r.ret)
    /\ call' = None
    /\ UNCHANGED <<scene, last_call, cv_in, cv_out>>
    /\ UNCHANGED viewVars

QAppend ==
    /\ call # None
    /\ Val(call).method = "append_point_to_quadrilateral"
    /\ QuadCall("append_point_to_quadrilateral",
                append_point_to_quadrilateral(quad, Val(call).args[1]))

QUpdate ==
    /\ call # None
    /\ Val(call).method = "update_point"
    /\ QuadCall("update_point",
                update_point(quad, Val(call).args[1], Val(call).args[2]))

\* Quadrilateral(): a fresh object replaces the one at hand.
QNew ==
    /\ call = None
    /\ quad' = NewQuadrilateral
    /\ ret' = None
    /\ UNCHANGED <<scene, call, last_call, cv_in, cv_out>>
    /\ UNCHANGED viewVars

NextQuad == QRequest \/ QAppend \/ QUpdate \/ QNew

SpecQuad == Init /\ [][NextQuad]_vars

(***************************************************************************)
(* The same object, each call run in one step and recorded in last_call.   *)
(***************************************************************************)
\* Points handed to the recorded calls: the corners of the square and its centre.
LogPts == CornerPts \cup {CentrePt}

LoggedCall(method, args, r) ==
    /\ call = None
    /\ quad' = r.q
    /\ ret' = Returned(method, r.ret)
    /\ last_call' = Calling(method, args)
    /\ UNCHANGED <<scene, call, cv_in, cv_out>>
    /\ UNCHANGED viewVars

QLoggedAppend ==
    \E p \in LogPts :
       LoggedCall("append_point_to_quadrilateral", <<p>>,
                  append_point_to_quadrilateral(quad, p))

QLoggedUpdate ==
    \E i \in QIds, p \in LogPts :
       LoggedCall("update_point", <<i, p>>, update_point(quad, i, p))

QLoggedNew ==
    /\ call = None
    /\ quad' = NewQuadrilateral
    /\ ret' = None
    /\ last_call' = None
    /\ UNCHANGED <<scene, call, cv_in, cv_out>>
    /\ UNCHANGED viewVars

NextQuadLog == QLoggedAppend \/ QLoggedUpdate \/ QLoggedNew

SpecQuadLog == Init /\ [][NextQuadLog]_vars

(***************************************************************************)
(* The same object, also asked for its internal rows and columns.          *)
(***************************************************************************)
\* Numbers of rows and columns asked for, from below 1 up to MaxCount.
GridCounts == -1..MaxCount

QInternalRows ==
    \E c \in GridCounts :
       LoggedCall("get_internal_rows", <<c>>, Result(get_internal_rows(quad, c), quad))

QInternalCols ==
    \E c \in GridCounts :
       LoggedCall("get_internal_cols", <<c>>, Result(get_internal_cols(quad, c), quad))

NextGrid ==
    \/ QLoggedAppend
    \/ QLoggedUpdate
    \/ QLoggedNew
    \/ QInternalRows
    \/ QInternalCols

SpecGrid == Init /\ [][NextGrid]_vars

(***************************************************************************)
(* One Quadrilateral with its corners on the 3 x 3 lattice, hit-tested.    *)
(***************************************************************************)
\* Points handed to is_point_in_quadrilateral: left of the lattice and level
\* with each of its rows, between the lattice columns, and beyond the lattice.
HitPts ==
    {<<-5, 0>>, <<-5, 3>>, <<-5, 5>>, <<-5, 10>>,
     <<3, 3>>, <<3, 5>>, <<3, 7>>, <<5, 5>>, <<7, 3>>, <<7, 5>>, <<7, 7>>,
     <<3, -5>>, <<7, 15>>, <<15, 5>>, <<15, 15>>}

\* A call that changes the object; only the object is kept.
HitStep(q) ==
    /\ call = None
    /\ quad' = q
    /\ ret' = None
    /\ last_call' = None
    /\ UNCHANGED <<scene, call, cv_in, cv_out>>
    /\ UNCHANGED viewVars

HitAppend == \E p \in QPts : HitStep(append_point_to_quadrilateral(quad, p).q)

HitUpdate == \E i \in 0..(NB_SIDE - 1), p \in QPts : HitStep(update_point(quad, i, p).q)

HitNew == HitStep(NewQuadrilateral)

QIsPointIn ==
    \E point \in HitPts :
       LoggedCall("is_point_in_quadrilateral", <<point>>,
                  Result(is_point_in_quadrilateral(quad, point), quad))

NextHit == HitAppend \/ HitUpdate \/ HitNew \/ QIsPointIn

SpecHit == Init /\ [][NextHit]_vars

(***************************************************************************)
(* One Quadrilateral with its corners on the 3 x 3 lattice, searched for a *)
(* corner close to a point.                                                *)
(***************************************************************************)
\* Points handed to find_close_corner: on a lattice point, at Manhattan
\* distance 9 and exactly 10 from lattice points, between lattice points and
\* far from all of them.
ProbePts ==
    {<<0, 0>>, <<5, 5>>, <<10, 10>>, <<1, 0>>, <<4, 4>>, <<7, 2>>,
     <<-5, -4>>, <<-5, -5>>, <<15, 10>>, <<19, 10>>, <<20, 20>>}

QFindCloseCorner ==
    \E point \in ProbePts :
       LoggedCall("find_close_corner", <<point>>,
                  Result(find_close_corner(quad, point), quad))

NextClose == HitAppend \/ HitUpdate \/ HitNew \/ QFindCloseCorner

SpecClose == Init /\ [][NextClose]_vars

(***************************************************************************)
(* is_convex applied to four points in each cyclic order and winding.      *)
(***************************************************************************)
\* points rotated left by k, reversed first when rev.
Reorder(points, k, rev) ==
    [i \in 1..4 |-> LET j == ((i - 1 + k) % 4) + 1
                    IN  IF rev THEN points[5 - j] ELSE points[j]]

InitConvexArgs ==
    /\ scene = SmallScene
    /\ InitView
    /\ InitQuad
    /\ cv_in \in [1..4 -> QPts]
    /\ cv_out = None

ApplyIsConvex ==
    /\ \E k \in 0..3, rev \in BOOLEAN :
          cv_out' = Some([rot |-> k, rev |-> rev,
                          res |-> is_convex(Reorder(cv_in, k, rev))])
    /\ UNCHANGED <<scene, quad, call, ret, last_call, cv_in>>
    /\ UNCHANGED viewVars

SpecConvex == InitConvexArgs /\ [][ApplyIsConvex]_vars

(***************************************************************************)
(* Properties                                                              *)
(***************************************************************************)
Points(q) == q.quadrilateral_points

\* Convex in stored order: the four cross products all >= 0 or all <= 0.
WeaklyConvex(points) ==
    LET z(i) == cross(points[i + 1], points[((i + 1) % 4) + 1], points[((i + 2) % 4) + 1])
    IN  (\A i \in 0..3 : z(i) >= 0) \/ (\A i \in 0..3 : z(i) <= 0)

DragCleared ==
    /\ dragging_point_id = None
    /\ dragging_quadrilateral = FALSE
    /\ last_mouse_pos = None

\* C1: every stored quadrilateral is complete, has exactly 4 points and is
\* convex in stored order (cross products all >= 0 or all <= 0), whatever
\* corner drags and whole-shape drags were applied.
C1_StoredShapesConvex ==
    \A i \in 1..Len(quadrilaterals) :
       /\ quadrilaterals[i].drawing_complete
       /\ Len(Points(quadrilaterals[i])) = 4
       /\ WeaklyConvex(Points(quadrilaterals[i]))

\* A stored shape that a whole-shape drag has moved off the pointer positions
\* while it is being dragged.
C1_Witness ==
    /\ dragging_quadrilateral
    /\ \E i \in 1..Len(quadrilaterals) :
          \E k \in 1..4 : Points(quadrilaterals[i])[k] \notin scene.pts

\* C2: the selection is None or an index of the list, at most one shape has
\* is_selected, and is_selected holds of exactly the selected index.
C2_SelectionConsistent ==
    /\ \/ selected_quadrilateral_id = None
       \/ /\ 0 <= Val(selected_quadrilateral_id)
          /\ Val(selected_quadrilateral_id) < Len(quadrilaterals)
    /\ Cardinality({i \in 1..Len(quadrilaterals) : quadrilaterals[i].is_selected}) <= 1
    /\ \A i \in 1..Len(quadrilaterals) :
          quadrilaterals[i].is_selected <=> (selected_quadrilateral_id = Some(i - 1))

\* Two shapes, the second one selected and one of its corners being dragged.
C2_Witness ==
    /\ Len(quadrilaterals) = 2
    /\ selected_quadrilateral_id = Some(1)
    /\ dragging_point_id # None

\* C3: ids are dense and positional, quadrilaterals[i].quadrilateral_id = i.
C3_IdsDense ==
    \A i \in 1..Len(quadrilaterals) :
       quadrilaterals[i].quadrilateral_id = Some(i - 1)

\* One shape left after a shape was deleted in the middle of a corner drag
\* (the drag survives the deletion, the selection does not).
C3_Witness ==
    /\ Len(quadrilaterals) = 1
    /\ selected_quadrilateral_id = None
    /\ dragging_point_id # None

\* C4: an active drag implies a selection.
C4_DragImpliesSelection ==
    (dragging_point_id # None \/ dragging_quadrilateral)
        => selected_quadrilateral_id # None

\* C5: a successful deletion leaves nothing selected, every is_selected
\* flag false and the drag state cleared.
C5_DeleteClearsSelectionAndDrag ==
    [][\A id \in DeleteIds :
         (0 <= id /\ id < Len(quadrilaterals) /\ DeleteAt(id))
            => /\ selected_quadrilateral_id' = None
               /\ \A i \in 1..Len(quadrilaterals') : ~quadrilaterals'[i].is_selected
               /\ DragCleared']_vars

RoleIds(q) == <<q.top_left_id, q.top_right_id, q.bottom_left_id, q.bottom_right_id>>

\* The cases in which append_point_to_quadrilateral must refuse p.
AppendRefused(q, p) ==
    \/ q.drawing_complete
    \/ find_close_corner(q, p) # None
    \/ Len(Points(q)) = 3 /\ ~is_convex(Append(Points(q), p))

\* C7: append_point_to_quadrilateral returns -1 and changes nothing when the
\* shape is complete, the point is close to a stored one, or the 4th point
\* gives a cycle is_convex rejects; otherwise it returns 0 and appends the
\* point at the end, completing the shape on the 4th point.
C7_AppendContract ==
    [][QAppend =>
         LET p == Val(call).args[1]
         IN  IF AppendRefused(quad, p)
             THEN /\ ret' = Returned("append_point_to_quadrilateral", -1)
                  /\ Points(quad') = Points(quad)
                  /\ quad'.drawing_complete = quad.drawing_complete
                  /\ RoleIds(quad') = RoleIds(quad)
             ELSE /\ ret' = Returned("append_point_to_quadrilateral", 0)
                  /\ Points(quad') = Append(Points(quad), p)
                  /\ quad'.drawing_complete = (Len(Points(quad)) = 3)]_vars

\* A 4th point was refused: the shape still has 3 points.
C7_Witness ==
    /\ ret = Returned("append_point_to_quadrilateral", -1)
    /\ Len(Points(quad)) = 3
    /\ ~quad.drawing_complete

\* The cases in which update_point must refuse.
UpdateRefused(q, i, p) ==
    \/ ~q.drawing_complete
    \/ i < 0
    \/ i > 3
    \/ ~is_convex([Points(q) EXCEPT ![i + 1] = p])

\* C8: update_point returns -1 and changes neither points nor corner roles
\* when the shape is incomplete, the index is outside 0..3 or the new cycle
\* is rejected by is_convex; otherwise it returns 0, sets that one point and
\* recomputes the corner roles from the new points.
C8_UpdateContract ==
    [][QUpdate =>
         LET i == Val(call).args[1]
             p == Val(call).args[2]
         IN  IF UpdateRefused(quad, i, p)
             THEN /\ ret' = Returned("update_point", -1)
                  /\ Points(quad') = Points(quad)
                  /\ RoleIds(quad') = RoleIds(quad)
             ELSE /\ ret' = Returned("update_point", 0)
                  /\ Points(quad')[i + 1] = p
                  /\ \A k \in 1..4 : k # i + 1 => Points(quad')[k] = Points(quad)[k]
                  /\ quad' = update_corner_ids(quad')]_vars

\* A corner of a complete shape was moved.
C8_Witness ==
    /\ ret = Returned("update_point", 0)
    /\ quad.drawing_complete

\* A pointer-move to p while the selected shape is being dragged as a whole.
ShapeDragMoveTo(p) ==
    /\ image_loaded
    /\ mode = EDIT
    /\ selected_quadrilateral_id # None
    /\ dragging_point_id = None
    /\ dragging_quadrilateral
    /\ last_mouse_pos # None
    /\ SetView(mouseMoveEvent(View, p))

\* C9: a whole-shape drag is a pure translation, every point of the
\* selected shape moves by delta = pointer - anchor.
C9_MoveIsTranslation ==
    [][\A p \in scene.pts :
         ShapeDragMoveTo(p) =>
            LET sel   == Val(selected_quadrilateral_id) + 1
                delta == PtSub(p, Val(last_mouse_pos))
            IN  \A k \in 1..4 :
                   Points(quadrilaterals'[sel])[k]
                       = PtAdd(Points(quadrilaterals[sel])[k], delta)]_vars

\* Four distinct points, not all on a line, convex in the given cyclic order.
ConvexPolygon(points) ==
    /\ \A i, j \in 1..4 : i # j => points[i] # points[j]
    /\ WeaklyConvex(points)
    /\ \E i \in 0..3 :
          cross(points[i + 1], points[((i + 1) % 4) + 1], points[((i + 2) % 4) + 1]) # 0

\* C10: for four points forming a convex polygon in cyclic order (collinear
\* edges allowed), is_convex returns true in every rotation and in both
\* windings.
C10_ConvexAllOrders ==
    (cv_out # None /\ ConvexPolygon(cv_in)) => Val(cv_out).res

\* All four cross products of the cycle non-zero and of one sign.
StrictlyConvex(points) ==
    LET z(i) == cross(points[i + 1], points[((i + 1) % 4) + 1], points[((i + 2) % 4) + 1])
    IN  (\A i \in 0..3 : z(i) > 0) \/ (\A i \in 0..3 : z(i) < 0)

\* The cycle with the corners at positions k and k+1 (cyclically) exchanged.
SwapAdjacent(points, k) ==
    LET k2 == (k % 4) + 1
    IN  [i \in 1..4 |-> IF i = k THEN points[k2] ELSE IF i = k2 THEN points[k] ELSE points[i]]

\* A strictly convex cycle with two adjacent corners exchanged.
Bowtie(points) == \E k \in 1..4 : StrictlyConvex(SwapAdjacent(points, k))

\* The segments a-b and c-d cross at a point interior to both.
SegmentsCross(a, b, c, d) ==
    /\ cross(a, b, c) * cross(a, b, d) < 0
    /\ cross(c, d, a) * cross(c, d, b) < 0

\* Two non-adjacent edges of the cycle cross.
SelfCrossing(points) ==
    \/ SegmentsCross(points[1], points[2], points[3], points[4])
    \/ SegmentsCross(points[2], points[3], points[4], points[1])

\* This step ran the method on quad, with the arguments now in last_call.
Ran(method) ==
    /\ last_call' # None
    /\ Val(last_call').method = method
    /\ ret' # None
    /\ Val(ret').method = method

\* C11: the 4th point that completes a strictly convex cycle with two adjacent
\* corners exchanged is refused by append_point_to_quadrilateral, and a corner
\* move that makes the cycle such a bowtie or makes two opposite edges cross is
\* refused by update_point; the points are unchanged in both cases.
C11_BowtieRejected ==
    [][/\ Ran("append_point_to_quadrilateral") =>
            LET cand == Append(Points(quad), Val(last_call').args[1])
            IN  (Len(Points(quad)) = 3 /\ Bowtie(cand))
                   => /\ ret' = Returned("append_point_to_quadrilateral", -1)
                      /\ Points(quad') = Points(quad)
       /\ Ran("update_point") =>
            LET i == Val(last_call').args[1]
                p == Val(last_call').args[2]
            IN  (quad.drawing_complete /\ 0 <= i /\ i <= 3
                 /\ LET cand == [Points(quad) EXCEPT ![i + 1] = p]
                    IN  Bowtie(cand) \/ SelfCrossing(cand))
                   => /\ ret' = Returned("update_point", -1)
                      /\ Points(quad') = Points(quad)]_vars

\* A 4th point far from the three stored ones was refused because it would
\* have completed a bowtie.
C11_Witness ==
    /\ last_call # None
    /\ Val(last_call).method = "append_point_to_quadrilateral"
    /\ ret = Returned("append_point_to_quadrilateral", -1)
    /\ Len(Points(quad)) = 3
    /\ find_close_corner(quad, Val(last_call).args[1]) = None
    /\ Bowtie(Append(Points(quad), Val(last_call).args[1]))

\* p lies on the closed segment a-b.
OnSegment(a, b, p) ==
    /\ cross(a, b, p) = 0
    /\ Min(a[1], b[1]) <= p[1] /\ p[1] <= Max(a[1], b[1])
    /\ Min(a[2], b[2]) <= p[2] /\ p[2] <= Max(a[2], b[2])

\* The closed segments a-b and c-d have a point in common.
SegmentsMeet(a, b, c, d) ==
    \/ SegmentsCross(a, b, c, d)
    \/ OnSegment(a, b, c)
    \/ OnSegment(a, b, d)
    \/ OnSegment(c, d, a)
    \/ OnSegment(c, d, b)

\* The list is_convex was last applied to.
AppliedPoints == Reorder(cv_in, Val(cv_out).rot, Val(cv_out).rev)

\* C12: when is_convex returns true, the non-adjacent edges p0p1, p2p3 and
\* p1p2, p3p0 of the list have no point in common.
C12_AcceptedNotSelfIntersecting ==
    (cv_out # None /\ Val(cv_out).res)
        => LET pts == AppliedPoints
           IN  /\ ~SegmentsMeet(pts[1], pts[2], pts[3], pts[4])
               /\ ~SegmentsMeet(pts[2], pts[3], pts[4], pts[1])

\* Every two stored points are at Manhattan distance >= CLOSE_POINT_DISTANCE.
Separated(q) ==
    \A i, j \in 1..Len(Points(q)) :
       i < j => manhattanLength(PtSub(Points(q)[i], Points(q)[j])) >= CLOSE_POINT_DISTANCE

\* C13: append_point_to_quadrilateral refuses a point closer than
\* CLOSE_POINT_DISTANCE to a stored point, whether 1, 2 or 3 points are
\* stored; so every shape in progress, and every shape at the moment its 4th
\* point completes it, has its points pairwise at Manhattan distance >= 10.
C13_MinimumSeparation ==
    [][/\ ~quad'.drawing_complete => Separated(quad')
       /\ QAppend =>
             LET p == Val(call).args[1]
             IN  /\ (\E k \in 1..Len(Points(quad)) :
                        manhattanLength(PtSub(p, Points(quad)[k])) < CLOSE_POINT_DISTANCE)
                       => /\ ret' = Returned("append_point_to_quadrilateral", -1)
                          /\ Points(quad') = Points(quad)
                 /\ (~quad.drawing_complete /\ quad'.drawing_complete)
                       => Separated(quad')]_vars

\* A point was refused by a shape in progress with two points: only its
\* closeness to one of them can have refused it.
C13_Witness ==
    /\ ret = Returned("append_point_to_quadrilateral", -1)
    /\ Len(Points(quad)) = 2

\* A left click at p in DRAW mode that supplies the 4th accepted point.
CompletingClick(p) ==
    /\ image_loaded
    /\ mode = DRAW
    /\ drawing_quadrilateral # None
    /\ Len(Points(Val(drawing_quadrilateral))) = 3
    /\ append_point_to_quadrilateral(Val(drawing_quadrilateral), p).ret = 0
    /\ SetView(mousePressEvent(View, p, LeftButton))

\* C14: the click that supplies the 4th accepted point appends the shape at
\* the end of the list with id = previous length, clears
\* drawing_quadrilateral, switches to EDIT, leaves nothing selected and
\* leaves every shape stored before at its position with its points.
C14_CompletionStoresShape ==
    [][\A p \in scene.pts :
         CompletingClick(p) =>
            LET n == Len(quadrilaterals)
            IN  /\ Len(quadrilaterals') = n + 1
                /\ Points(quadrilaterals'[n + 1])
                      = Append(Points(Val(drawing_quadrilateral)), p)
                /\ quadrilaterals'[n + 1].drawing_complete
                /\ quadrilaterals'[n + 1].quadrilateral_id = Some(n)
                /\ drawing_quadrilateral' = None
                /\ mode' = EDIT
                /\ selected_quadrilateral_id' = None
                /\ \A k \in 1..(n + 1) : ~quadrilaterals'[k].is_selected
                /\ \A k \in 1..n :
                      /\ Points(quadrilaterals'[k]) = Points(quadrilaterals[k])
                      /\ quadrilaterals'[k].quadrilateral_id = Some(k - 1)]_vars

\* A second shape has been completed behind a first one with a different
\* point list: EDIT mode, nothing selected, nothing in progress.
C14_Witness ==
    /\ Len(quadrilaterals) = 2
    /\ quadrilaterals[2].quadrilateral_id = Some(1)
    /\ \E k \in 1..4 : Points(quadrilaterals[1])[k] # Points(quadrilaterals[2])[k]
    /\ mode = EDIT
    /\ drawing_quadrilateral = None
    /\ selected_quadrilateral_id = None

\* The stored shapes are the same after the step: same number, and at each
\* position the same points, completeness and id.
ItemsUnchanged ==
    /\ Len(quadrilaterals') = Len(quadrilaterals)
    /\ \A k \in 1..Len(quadrilaterals) :
          /\ Points(quadrilaterals'[k]) = Points(quadrilaterals[k])
          /\ quadrilaterals'[k].drawing_complete = quadrilaterals[k].drawing_complete
          /\ quadrilaterals'[k].quadrilateral_id = quadrilaterals[k].quadrilateral_id

\* C15: set_mode(DRAW) and set_mode(EDIT), also to the current mode, discard
\* the shape in progress, clear the selection and every is_selected flag,
\* clear the drag state and leave the stored shapes unchanged.
C15_ModeSwitchResets ==
    [][\A m \in {DRAW, EDIT} :
         SetView(set_mode(View, m)) =>
            /\ mode' = m
            /\ drawing_quadrilateral' = None
            /\ selected_quadrilateral_id' = None
            /\ \A k \in 1..Len(quadrilaterals') : ~quadrilaterals'[k].is_selected
            /\ DragCleared'
            /\ ItemsUnchanged]_vars

\* DRAW mode was entered while a shape is stored: the shape is still there.
C15_Witness ==
    /\ mode = DRAW
    /\ Len(quadrilaterals) = 1
    /\ drawing_quadrilateral = None
    /\ selected_quadrilateral_id = None
    /\ DragCleared

\* This step ran the handler on the view, with the arguments now in last_call.
Handled(method) ==
    /\ last_call' # None
    /\ Val(last_call').method = method

DeleteKeyHandled ==
    /\ Handled("keyPressEvent")
    /\ Val(last_call').args[1] \in {"Key_Delete", "Key_Backspace"}

\* C16 as stated: the list loses a shape only by the Delete or Backspace key,
\* and opening or closing an image discards the shape in progress, clears
\* selection and drag state and leaves the stored shapes unchanged.
C16_ItemsSurviveImageReload ==
    [][/\ Len(quadrilaterals') < Len(quadrilaterals) => DeleteKeyHandled
       /\ (Handled("open_image") \/ Handled("close_image"))
             => /\ drawing_quadrilateral' = None
                /\ selected_quadrilateral_id' = None
                /\ DragCleared'
                /\ ItemsUnchanged]_vars

\* C16 amended: the list loses a shape only by the Delete or Backspace key
\* or by opening or closing an image; opening or closing an image empties
\* the list, discards the shape in progress, clears selection and drag
\* state and sets the mode to EDIT.
C16_ItemsLeaveByDeleteOrImage ==
    [][/\ Len(quadrilaterals') < Len(quadrilaterals)
             => DeleteKeyHandled \/ Handled("open_image") \/ Handled("close_image")
       /\ (Handled("open_image") \/ Handled("close_image"))
             => /\ quadrilaterals' = <<>>
                /\ drawing_quadrilateral' = None
                /\ selected_quadrilateral_id' = None
                /\ DragCleared'
                /\ mode' = EDIT
                /\ image_loaded' = Handled("open_image")]_vars

\* An image was opened while a shape was stored: the list is now empty.
C16_Witness ==
    /\ last_call # None
    /\ Val(last_call).method = "open_image"
    /\ Val(last_call).nb_before = 1
    /\ quadrilaterals = <<>>
    /\ image_loaded

\* The indices of the corners of the selected shape closer to p than
\* CLOSE_POINT_DISTANCE, in Manhattan distance.
CloseCorners(p) ==
    IF selected_quadrilateral_id = None THEN {}
    ELSE LET pts == Points(quadrilaterals[Val(selected_quadrilateral_id) + 1])
         IN  {k \in 0..(Len(pts) - 1) :
                manhattanLength(PtSub(p, pts[k + 1])) < CLOSE_POINT_DISTANCE}

\* The indices of the stored shapes that contain p.
ShapesAt(p) ==
    {i \in 0..(Len(quadrilaterals) - 1) : is_point_in_quadrilateral(quadrilaterals[i + 1], p)}

\* The view after a left button press at p in the current state.
LeftPressed(p) == mousePressEvent(View, p, LeftButton)

\* The view is in EDIT mode with an image loaded.
Editing == image_loaded /\ mode = EDIT

\* C17: in EDIT mode a left press close to a corner of the selected shape
\* starts a corner drag with the index of a close corner, whatever shape
\* contains the pointer, and changes neither the selection nor any shape.
C17_CornerPressStartsCornerDrag ==
    Editing =>
       \A p \in scene.pts :
          CloseCorners(p) # {}
             => LET w == LeftPressed(p)
                IN  /\ w.dragging_point_id # None
                    /\ Val(w.dragging_point_id) \in CloseCorners(p)
                    /\ w.dragging_quadrilateral = FALSE
                    /\ w.last_mouse_pos = None
                    /\ w.selected_quadrilateral_id = selected_quadrilateral_id
                    /\ w.quadrilaterals = quadrilaterals
                    /\ w.mode = EDIT

\* A corner drag of the selected shape on a corner that lies inside the
\* other shape.
C17_Witness ==
    /\ Len(quadrilaterals) = 2
    /\ selected_quadrilateral_id # None
    /\ dragging_point_id # None
    /\ dragging_quadrilateral = FALSE
    /\ LET sel == Val(selected_quadrilateral_id)
           c   == Points(quadrilaterals[sel + 1])[Val(dragging_point_id) + 1]
       IN  /\ ShapesAt(c) # {}
           /\ sel \notin ShapesAt(c)

\* C18: in EDIT mode a left press inside the selected shape and close to none
\* of its corners starts a whole-shape drag anchored at the pointer and
\* changes nothing else; while the selected shape is dragged as a whole,
\* each pointer-move calls move_delta on it with delta = pointer - anchor
\* and then moves the anchor to the pointer.
C18_ShapePressAnchorsAndMovesFollow ==
    (Editing /\ selected_quadrilateral_id # None) =>
       LET sel == Val(selected_quadrilateral_id)
       IN  \A p \in scene.pts :
              /\ (sel \in ShapesAt(p) /\ CloseCorners(p) = {})
                    => LeftPressed(p) = [View EXCEPT !.dragging_quadrilateral = TRUE,
                                                     !.last_mouse_pos = Some(p),
                                                     !.dragging_point_id = None]
              /\ dragging_quadrilateral
                    => /\ dragging_point_id = None
                       /\ last_mouse_pos # None
                       /\ mouseMoveEvent(View, p)
                             = [View EXCEPT
                                  !.quadrilaterals[sel + 1] =
                                      move_delta(@, PtSub(p, Val(last_mouse_pos))),
                                  !.last_mouse_pos = Some(p)]

\* The last event was a pointer-move during a whole-shape drag: the anchor is
\* the pointer, away from the centre, and the shape has points off the
\* pointer grid.
C18_Witness ==
    /\ last_call # None
    /\ Val(last_call).method = "mouseMoveEvent"
    /\ Editing
    /\ selected_quadrilateral_id # None
    /\ dragging_quadrilateral
    /\ last_mouse_pos = Some(Val(last_call).args[1])
    /\ last_mouse_pos # Some(CentrePt)
    /\ \E k \in 1..4 :
          Points(quadrilaterals[Val(selected_quadrilateral_id) + 1])[k] \notin scene.pts

\* C19: in EDIT mode a left press that is close to no corner of the selected
\* shape and inside a shape other than the selected one (inside any shape
\* when nothing is selected) makes a shape under the pointer the only
\* selected one and leaves no drag in progress.
C19_SelectingClickLeavesNoDrag ==
    Editing =>
       \A p \in scene.pts :
          (/\ CloseCorners(p) = {}
           /\ ShapesAt(p) # {}
           /\ selected_quadrilateral_id # None => Val(selected_quadrilateral_id) \notin ShapesAt(p))
             => LET w == LeftPressed(p)
                IN  /\ w.selected_quadrilateral_id # None
                    /\ Val(w.selected_quadrilateral_id) \in ShapesAt(p)
                    /\ \A k \in 1..Len(w.quadrilaterals) :
                          w.quadrilaterals[k].is_selected
                              <=> (k - 1 = Val(w.selected_quadrilateral_id))
                    /\ w.dragging_point_id = None
                    /\ w.dragging_quadrilateral = FALSE
                    /\ w.last_mouse_pos = None

\* C20: in EDIT mode a left press inside no shape and close to no corner of
\* the selected shape changes nothing: the stored shapes and their points,
\* the selection and its flags, and the drag state stay as they were.
C20_ClickOnEmptySpaceChangesNothing ==
    Editing =>
       \A p \in scene.pts :
          (ShapesAt(p) = {} /\ CloseCorners(p) = {}) => LeftPressed(p) = View

\* The last event was a left press on empty space while a shape is selected:
\* the shape is still selected.
C20_Witness ==
    /\ last_call # None
    /\ Val(last_call).method = "mousePressEvent"
    /\ Val(last_call).args[2] = LeftButton
    /\ Editing
    /\ selected_quadrilateral_id # None
    /\ quadrilaterals[Val(selected_quadrilateral_id) + 1].is_selected
    /\ ShapesAt(Val(last_call).args[1]) = {}
    /\ CloseCorners(Val(last_call).args[1]) = {}

\* C21: a pointer-up, in any mode and with or without an image, clears the
\* drag state (corner index, shape-drag flag, anchor) and changes neither
\* the selection, nor the stored shapes and their points, nor the shape in
\* progress, nor the mode.
C21_ReleaseClearsDragOnly ==
    [][Handled("mouseReleaseEvent")
          => /\ DragCleared'
             /\ UNCHANGED <<image_loaded, mode, quadrilaterals, drawing_quadrilateral,
                            selected_quadrilateral_id>>]_vars

\* The last event was a pointer-up after a whole-shape drag moved the
\* selected shape off the pointer grid: the shape is still selected and no
\* drag is in progress.
C21_Witness ==
    /\ last_call # None
    /\ Val(last_call).method = "mouseReleaseEvent"
    /\ Editing
    /\ selected_quadrilateral_id # None
    /\ quadrilaterals[Val(selected_quadrilateral_id) + 1].is_selected
    /\ DragCleared
    /\ \E k \in 1..4 :
          Points(quadrilaterals[Val(selected_quadrilateral_id) + 1])[k] \notin scene.pts

\* The square of the construction example, in the order it is clicked.
SquareClicks == <<<<0, 0>>, <<10, 0>>, <<10, 10>>, <<0, 10>>>>

\* C22: appending (0,0),(10,0),(10,10),(0,10) in that cyclic order, from any
\* of the four starting points, is accepted point by point and the fourth
\* append completes the quadrilateral with top-left (0,0), top-right (10,0),
\* bottom-left (0,10) and bottom-right (10,10).
C22_SquareRolesFromAnyStart ==
    [][\A k \in 0..3, n \in 0..3 :
         LET clicks == Reorder(SquareClicks, k, FALSE)
         IN  (/\ Ran("append_point_to_quadrilateral")
              /\ ~quad.drawing_complete
              /\ Points(quad) = SubSeq(clicks, 1, n)
              /\ Val(last_call').args[1] = clicks[n + 1])
                => /\ ret' = Returned("append_point_to_quadrilateral", 0)
                   /\ Points(quad') = SubSeq(clicks, 1, n + 1)
                   /\ quad'.drawing_complete = (n = 3)
                   /\ n = 3 => /\ get_top_left(quad') = Some(<<0, 0>>)
                               /\ get_top_right(quad') = Some(<<10, 0>>)
                               /\ get_bottom_left(quad') = Some(<<0, 10>>)
                               /\ get_bottom_right(quad') = Some(<<10, 10>>)]_vars

\* The square was completed by clicks that started at (10,10).
C22_Witness ==
    /\ last_call = Calling("append_point_to_quadrilateral", <<<<10, 0>>>>)
    /\ ret = Returned("append_point_to_quadrilateral", 0)
    /\ quad.drawing_complete
    /\ Points(quad) = <<<<10, 10>>, <<0, 10>>, <<0, 0>>, <<10, 0>>>>
    /\ get_top_left(quad) = Some(<<0, 0>>)

\* Two points with fractional coordinates are the same point.
FracPtEq(a, b) == a[1] * b[3] = b[1] * a[3] /\ a[2] * b[3] = b[2] * a[3]

\* ((count - r) * p + r * q) / count
Between(p, q, r, count) ==
    <<(count - r) * p[1] + r * q[1], (count - r) * p[2] + r * q[2], count>>

\* The list a call of get_internal_rows or get_internal_cols returned is the
\* one claimed for q and count, from[1]-from[2] being interpolated towards
\* to[1]-to[2].
GridAsClaimed(out, q, count, from, to) ==
    IF count < 1 \/ ~q.drawing_complete THEN out = None
    ELSE /\ out # None
         /\ Len(Val(out)) = count - 1
         /\ \A r \in 1..(count - 1) :
               /\ FracPtEq(Val(out)[r][1], Between(from[1], to[1], r, count))
               /\ FracPtEq(Val(out)[r][2], Between(from[2], to[2], r, count))

\* C23: get_internal_rows and get_internal_cols return None for a count
\* below 1 or an incomplete quadrilateral, the empty list for count 1, and
\* otherwise the count - 1 segments r = 1..count-1 in that order, segment r
\* joining ((count-r)*TL + r*BL)/count to ((count-r)*TR + r*BR)/count for
\* rows and ((count-r)*TL + r*TR)/count to ((count-r)*BL + r*BR)/count for
\* columns; on the square with count 4 the rows are at y = 2.5, 5 and 7.5
\* from x = 0 to x = 10.
C23_InternalLines ==
    (last_call # None /\ Val(last_call).method \in {"get_internal_rows", "get_internal_cols"})
       => LET count == Val(last_call).args[1]
              out   == Val(ret).code
              TL    == Points(quad)[Val(quad.top_left_id) + 1]
              TR    == Points(quad)[Val(quad.top_right_id) + 1]
              BL    == Points(quad)[Val(quad.bottom_left_id) + 1]
              BR    == Points(quad)[Val(quad.bottom_right_id) + 1]
          IN  /\ Val(last_call).method = "get_internal_rows"
                    => GridAsClaimed(out, quad, count, <<TL, TR>>, <<BL, BR>>)
              /\ Val(last_call).method = "get_internal_cols"
                    => GridAsClaimed(out, quad, count, <<TL, BL>>, <<TR, BR>>)
              /\ (/\ Val(last_call).method = "get_internal_rows"
                  /\ count = 4
                  /\ quad.drawing_complete
                  /\ \E k \in 0..3 : Points(quad) = Reorder(SquareClicks, k, FALSE))
                    => /\ out # None
                       /\ Len(Val(out)) = 3
                       /\ \A r \in 1..3 :
                             /\ FracPtEq(Val(out)[r][1], <<0, 5 * r, 2>>)
                             /\ FracPtEq(Val(out)[r][2], <<20, 5 * r, 2>>)

\* Three rows were asked of the square clicked from (10,0).
C23_Witness ==
    /\ last_call = Calling("get_internal_rows", <<4>>)
    /\ quad.drawing_complete
    /\ Points(quad) = Reorder(SquareClicks, 1, FALSE)
    /\ ret # None
    /\ Val(ret).code # None
    /\ Len(Val(Val(ret).code)) = 3

\* The side of the edge a -> b on which p lies: positive, negative or 0.
Side(a, b, p) == (b[1] - a[1]) * (p[2] - a[2]) - (b[2] - a[2]) * (p[1] - a[1])

\* p is strictly on the same side of all four edges of the cycle.
StrictlyInside(points, p) ==
    LET s(i) == Side(points[i + 1], points[((i + 1) % 4) + 1], p)
    IN  (\A i \in 0..3 : s(i) > 0) \/ (\A i \in 0..3 : s(i) < 0)

\* p is strictly beyond one edge of the strictly convex cycle: on the side
\* opposite to the polygon's other corners.
StrictlyOutside(points, p) ==
    \E i \in 0..3 :
       LET a == points[i + 1]
           b == points[((i + 1) % 4) + 1]
           c == points[((i + 2) % 4) + 1]
       IN  Side(a, b, p) * Side(a, b, c) < 0

\* C24: is_point_in_quadrilateral returns false for every point while the
\* quadrilateral is not complete; for a complete strictly convex
\* quadrilateral, in either winding, it returns true for a point strictly
\* inside and false for a point strictly outside; on the square it returns
\* true for (5,5) and false for (15,15).
C24_HitTestOfConvexShape ==
    (last_call # None /\ Val(last_call).method = "is_point_in_quadrilateral")
       => LET p   == Val(last_call).args[1]
              out == Val(ret).code
          IN  /\ ~quad.drawing_complete => out = FALSE
              /\ (quad.drawing_complete /\ StrictlyConvex(Points(quad)))
                    => /\ StrictlyInside(Points(quad), p) => out = TRUE
                       /\ StrictlyOutside(Points(quad), p) => out = FALSE
              /\ (/\ quad.drawing_complete
                  /\ \E k \in 0..3 : Points(quad) = Reorder(SquareClicks, k, FALSE))
                    => /\ p = <<5, 5>> => out = TRUE
                       /\ p = <<15, 15>> => out = FALSE

\* A point level with a corner and strictly inside a strictly convex
\* quadrilateral whose cross products are negative was tested.
C24_Witness ==
    /\ last_call = Calling("is_point_in_quadrilateral", <<<<3, 5>>>>)
    /\ quad.drawing_complete
    /\ StrictlyConvex(Points(quad))
    /\ cross(Points(quad)[1], Points(quad)[2], Points(quad)[3]) < 0
    /\ <<10, 5>> \in {Points(quad)[k] : k \in 1..4}
    /\ StrictlyInside(Points(quad), <<3, 5>>)
    /\ ret = Returned("is_point_in_quadrilateral", TRUE)

\* The run so far is exactly the first k events of Script.
Done(k) == last_call = Some(k)

\* The run so far is the first k events of Script for some k in lo..hi.
DoneWithin(lo, hi) == last_call # None /\ lo <= Val(last_call) /\ Val(last_call) <= hi

\* Exactly one shape is stored and its points are pts.
OnlyShape(pts) == Len(quadrilaterals) = 1 /\ Points(quadrilaterals[1]) = pts

\* C25: from start-up, opening an image, entering DRAW mode and clicking
\* (0,0),(100,0),(100,100),(0,100) stores shape A and enters EDIT mode; a
\* click inside A selects it; press on (0,0), move to (20,20), release puts
\* that corner at (20,20), the other three unchanged, the shape convex; press
\* at (50,50), move to (55,55), release shifts all four corners by (5,5);
\* Delete then leaves no shape and no selection.
C25_EndToEndScenario ==
    /\ DoneWithin(1, Len(Script)) => image_loaded
    /\ Done(2) => mode = DRAW /\ quadrilaterals = <<>>
    /\ DoneWithin(9, 10)
          => /\ OnlyShape(<<<<0, 0>>, <<100, 0>>, <<100, 100>>, <<0, 100>>>>)
             /\ mode = EDIT
             /\ drawing_quadrilateral = None
             /\ selected_quadrilateral_id = None
    /\ DoneWithin(11, 12)
          => /\ OnlyShape(<<<<0, 0>>, <<100, 0>>, <<100, 100>>, <<0, 100>>>>)
             /\ selected_quadrilateral_id = Some(0)
             /\ quadrilaterals[1].is_selected
             /\ DragCleared
    /\ Done(13) => dragging_point_id = Some(0) /\ selected_quadrilateral_id = Some(0)
    /\ DoneWithin(14, 16)
          => /\ OnlyShape(<<<<20, 20>>, <<100, 0>>, <<100, 100>>, <<0, 100>>>>)
             /\ StrictlyConvex(Points(quadrilaterals[1]))
             /\ selected_quadrilateral_id = Some(0)
    /\ Done(16) => dragging_quadrilateral /\ last_mouse_pos = Some(<<50, 50>>)
    /\ DoneWithin(17, 18)
          => /\ OnlyShape(<<<<25, 25>>, <<105, 5>>, <<105, 105>>, <<5, 105>>>>)
             /\ selected_quadrilateral_id = Some(0)
             /\ mode = EDIT
    /\ Done(18) => DragCleared
    /\ Done(Len(Script)) => quadrilaterals = <<>> /\ selected_quadrilateral_id = None

\* The whole script has been played.
C25_Witness ==
    /\ Done(Len(Script))
    /\ image_loaded
    /\ mode = EDIT
    /\ quadrilaterals = <<>>

\* C26: delete_quadrilateral(id) with id < 0 or id >= the number of shapes
\* returns -1, and delete_selected_quadrilateral returns -1 when Delete or
\* Backspace is pressed with nothing selected; in both cases the stored
\* shapes and their ids, the selection, the drag state, the mode and the
\* shape in progress are unchanged.
C26_FailedDeletionChangesNothing ==
    [][/\ (/\ Handled("delete_quadrilateral")
           /\ \/ Val(last_call').args[1] < 0
              \/ Val(last_call').args[1] >= Len(quadrilaterals))
             => Val(last_call').code = -1 /\ UNCHANGED viewVars
       /\ (DeleteKeyHandled /\ selected_quadrilateral_id = None)
             => delete_selected_quadrilateral(View).ret = -1 /\ UNCHANGED viewVars]_vars

\* delete_quadrilateral(1) was called during a drag on the only shape:
\* the shape, its selection and the drag are still there.
C26_Witness ==
    /\ last_call # None
    /\ Val(last_call).method = "delete_quadrilateral"
    /\ Val(last_call).args[1] = 1
    /\ Val(last_call).code = -1
    /\ Len(quadrilaterals) = 1
    /\ selected_quadrilateral_id = Some(0)
    /\ ~DragCleared

\* The view is in DRAW mode with an image loaded.
Drawing == image_loaded /\ mode = DRAW

\* C27: in DRAW mode a right button press discards the shape in progress,
\* whatever number of points it holds, and leaves the stored shapes and the
\* mode unchanged; a left press that finds no shape in progress, as the next
\* one does, starts a new shape holding exactly the clicked point and stores
\* nothing.
C27_RightPressDiscardsDrawing ==
    Drawing =>
       \A p \in scene.pts :
          /\ LET w == mousePressEvent(View, p, RightButton)
             IN  /\ w.drawing_quadrilateral = None
                 /\ w.quadrilaterals = quadrilaterals
                 /\ w.mode = DRAW
                 /\ \A p2 \in scene.pts :
                       LET w2 == mousePressEvent(w, p2, LeftButton)
                       IN  /\ w2.drawing_quadrilateral # None
                           /\ Points(Val(w2.drawing_quadrilateral)) = <<p2>>
                           /\ ~Val(w2.drawing_quadrilateral).drawing_complete
                           /\ w2.quadrilaterals = quadrilaterals
                           /\ w2.mode = DRAW
          /\ drawing_quadrilateral = None
                => LET w == LeftPressed(p)
                   IN  /\ w.drawing_quadrilateral # None
                       /\ Points(Val(w.drawing_quadrilateral)) = <<p>>
                       /\ w.quadrilaterals = quadrilaterals
                       /\ w.mode = DRAW

\* DRAW mode with a shape stored and three points of the next one placed:
\* the state in which a right press has the most to discard.
C27_Witness ==
    /\ Drawing
    /\ Len(quadrilaterals) = 1
    /\ drawing_quadrilateral # None
    /\ Len(Points(Val(drawing_quadrilateral))) = 3
    /\ mousePressEvent(View, <<0, 0>>, RightButton).drawing_quadrilateral = None

\* The quadrilateral obtained by clicking the four points in the given order.
Clicked(points) ==
    LET q1 == append_point_to_quadrilateral(NewQuadrilateral, points[1]).q
        q2 == append_point_to_quadrilateral(q1, points[2]).q
        q3 == append_point_to_quadrilateral(q2, points[3]).q
    IN  append_point_to_quadrilateral(q3, points[4]).q

\* The positions of the four corner roles.
RolePositions(q) ==
    <<get_top_left(q), get_top_right(q), get_bottom_left(q), get_bottom_right(q)>>

\* C28: a complete quadrilateral and the quadrilateral obtained by clicking
\* the same four positions in any rotation of the stored order, reversed or
\* not, have each corner role at the same position.
C28_RolesIndependentOfOrder ==
    quad.drawing_complete =>
       \A k \in 0..3, rev \in BOOLEAN :
          LET other == Clicked(Reorder(Points(quad), k, rev))
          IN  other.drawing_complete => RolePositions(other) = RolePositions(quad)

\* Two corner indices are neighbours on the stored cycle of four points.
Adjacent(i, j) == (i - j) % NB_SIDE \in {1, NB_SIDE - 1}

\* The four corner roles of q go round its boundary: each of TOP_LEFT-TOP_RIGHT,
\* TOP_RIGHT-BOTTOM_RIGHT, BOTTOM_RIGHT-BOTTOM_LEFT and BOTTOM_LEFT-TOP_LEFT
\* is an edge of the stored cycle.
RolesFollowBoundary(q) ==
    /\ q.top_left_id # None /\ q.top_right_id # None
    /\ q.bottom_left_id # None /\ q.bottom_right_id # None
    /\ Adjacent(Val(q.top_left_id), Val(q.top_right_id))
    /\ Adjacent(Val(q.top_right_id), Val(q.bottom_right_id))
    /\ Adjacent(Val(q.bottom_right_id), Val(q.bottom_left_id))
    /\ Adjacent(Val(q.bottom_left_id), Val(q.top_left_id))

\* C29: in every complete quadrilateral the view stores, the corner roles
\* follow the polygon boundary, so that TOP_LEFT-BOTTOM_LEFT and
\* TOP_RIGHT-BOTTOM_RIGHT are edges of the shape and never its diagonals.
C29_RolesFollowBoundary ==
    \A i \in 1..Len(quadrilaterals) :
       quadrilaterals[i].drawing_complete => RolesFollowBoundary(quadrilaterals[i])

\* The largest index of a non-empty set of shape indices: the shape drawn last,
\* drawForeground painting the stored shapes in the order of the list.
Topmost(S) == CHOOSE i \in S : \A j \in S : j <= i

\* C30: for every pointer position, ImageView.is_point_in_quadrilateral
\* returns the selected shape's index when the selected shape contains the
\* point; otherwise the highest index among the shapes that contain the point;
\* and None exactly when no stored shape contains the point.
C30_CollectionHitTest ==
    \A p \in scene.pts :
       LET r == view_is_point_in_quadrilateral(View, p)
           hit_selected == /\ selected_quadrilateral_id # None
                           /\ Val(selected_quadrilateral_id) \in ShapesAt(p)
       IN  /\ hit_selected => r = selected_quadrilateral_id
           /\ (~hit_selected /\ ShapesAt(p) # {}) => r = Some(Topmost(ShapesAt(p)))
           /\ (r = None) <=> (ShapesAt(p) = {})

\* The Manhattan distance from p to corner k of the selected shape.
CornerDistance(p, k) ==
    manhattanLength(PtSub(p, Points(quadrilaterals[Val(selected_quadrilateral_id) + 1])[k + 1]))

\* C31: in EDIT mode, whenever corners of the selected shape are closer to the
\* pointer than CLOSE_POINT_DISTANCE, the corner a left press picks up is a
\* corner of the selected shape at minimal Manhattan distance from the pointer.
C31_NearestCornerPicked ==
    Editing =>
       \A p \in scene.pts :
          CloseCorners(p) # {}
             => LET w == LeftPressed(p)
                IN  /\ w.dragging_point_id # None
                    /\ Val(w.dragging_point_id) \in CloseCorners(p)
                    /\ \A k \in CloseCorners(p) :
                          CornerDistance(p, Val(w.dragging_point_id)) <= CornerDistance(p, k)

\* Point k (from 0) of q is closer to p than 10 in the L1 metric.
WithinTen(q, k, p) ==
    LET c  == Points(q)[k + 1]
        dx == IF p[1] >= c[1] THEN p[1] - c[1] ELSE c[1] - p[1]
        dy == IF p[2] >= c[2] THEN p[2] - c[2] ELSE c[2] - p[2]
    IN  dx + dy < 10

\* C32: find_close_corner returns the lowest index of a stored point at
\* Manhattan distance strictly below 10 from the given point, None when no
\* stored point is that close, and leaves the quadrilateral as it was.
C32_FindCloseCornerContract ==
    [][Ran("find_close_corner") =>
          LET p == Val(last_call').args[1]
              r == Val(ret').code
              n == Len(Points(quad))
          IN  /\ quad' = quad
              /\ r # None =>
                    /\ Val(r) \in 0..(n - 1)
                    /\ WithinTen(quad, Val(r), p)
                    /\ \A j \in 0..(Val(r) - 1) : ~WithinTen(quad, j, p)
              /\ r = None => \A j \in 0..(n - 1) : ~WithinTen(quad, j, p)]_vars

\* A search that skipped a first point at distance exactly 10 and returned
\* the second, at distance 5, with a third close point behind it: the probe
\* (15,10) on the points (5,10), (10,10), (10,5).
C32_Witness ==
    /\ last_call = Calling("find_close_corner", <<<<15, 10>>>>)
    /\ ret = Returned("find_close_corner", Some(1))
    /\ Len(Points(quad)) >= 3
    /\ Points(quad)[1] = <<5, 10>>
    /\ Points(quad)[2] = <<10, 10>>
    /\ Points(quad)[3] = <<10, 5>>

\* The view after a pointer move to p in the current state.
Moved(p) == mouseMoveEvent(View, p)

\* The points of every stored shape of v other than the selected one are
\* those of the current state.
OthersKept(v) ==
    \A i \in 1..Len(quadrilaterals) :
       Some(i - 1) # selected_quadrilateral_id
          => Points(v.quadrilaterals[i]) = Points(quadrilaterals[i])

\* The points of the selected shape.
SelectedPoints(v) == Points(v.quadrilaterals[Val(v.selected_quadrilateral_id) + 1])

\* A corner of the selected shape is being dragged.
DraggingCorner ==
    Editing /\ selected_quadrilateral_id # None /\ dragging_point_id # None

Collapsed(q) ==
    \E i, j \in 1..Len(Points(q)) :
       /\ i < j
       /\ Points(q)[i] # Points(q)[j]
       /\ manhattanLength(PtSub(Points(q)[i], Points(q)[j])) < CLOSE_POINT_DISTANCE

\* C34: a corner drag is not held back by the other corners: while a corner
\* of the selected shape is dragged, a move to a position closer than
\* CLOSE_POINT_DISTANCE to another corner is applied whenever it leaves the
\* shape strictly convex, so that editing can bring two corners of a stored
\* shape closer together than drawing allows.
C34_CornerDragIgnoresProximity ==
    DraggingCorner =>
       \A p \in scene.pts :
          LET i      == Val(dragging_point_id) + 1
              target == [SelectedPoints(View) EXCEPT ![i] = p]
          IN  (/\ StrictlyConvex(target)
               /\ \E j \in 1..NB_SIDE :
                     j # i /\ manhattanLength(PtSub(p, target[j])) < CLOSE_POINT_DISTANCE)
                 => SelectedPoints(Moved(p)) = target

\* A square was drawn and selected and one of its corners dragged: the last
\* event is a pointer move that left the dragged corner at the pointer
\* position (4,0), at Manhattan distance 4 from the corner at (0,0).
C34_Witness ==
    /\ last_call = Event("mouseMoveEvent", <<NearPt>>)
    /\ Len(quadrilaterals) = 1
    /\ DraggingCorner
    /\ SelectedPoints(View)[Val(dragging_point_id) + 1] = NearPt
    /\ \E j \in 1..NB_SIDE : SelectedPoints(View)[j] = <<0, 0>>
    /\ Collapsed(quadrilaterals[1])

\* The points placed so far of the shape in progress, none when there is no
\* such shape.
PlacedPoints(dq) == IF dq = None THEN <<>> ELSE Points(Val(dq))

\* long starts with short.
StartsWith(long, short) ==
    /\ Len(long) >= Len(short)
    /\ \A k \in 1..Len(short) : long[k] = short[k]

\* C35: every event leaves the point list of the shape in progress as it is,
\* or extends it by exactly one point at the end, or ends the shape in
\* progress as a whole: discarded, or handed over to the list of stored
\* shapes with its points in the order they were placed and one point added
\* at the end.
C35_InProgressOnlyGrows ==
    [][LET old == PlacedPoints(drawing_quadrilateral)
           new == PlacedPoints(drawing_quadrilateral')
           n   == Len(quadrilaterals)
       IN  \/ new = old
           \/ /\ drawing_quadrilateral' # None
              /\ Len(new) = Len(old) + 1
              /\ StartsWith(new, old)
              /\ quadrilaterals' = quadrilaterals
           \/ /\ drawing_quadrilateral' = None
              /\ \/ Len(quadrilaterals') <= n
                 \/ /\ Len(quadrilaterals') = n + 1
                    /\ Len(Points(quadrilaterals'[n + 1])) = Len(old) + 1
                    /\ StartsWith(Points(quadrilaterals'[n + 1]), old)]_vars

\* The last event was a click that placed the third point of the shape in
\* progress, behind two points that differ from it and from each other.
C35_Witness ==
    /\ Drawing
    /\ drawing_quadrilateral # None
    /\ Len(PlacedPoints(drawing_quadrilateral)) = 3
    /\ last_call # None
    /\ Val(last_call).method = "mousePressEvent"
    /\ Val(last_call).args = <<PlacedPoints(drawing_quadrilateral)[3], LeftButton>>
    /\ PlacedPoints(drawing_quadrilateral)[1] = CentrePt
    /\ PlacedPoints(drawing_quadrilateral)[2] # PlacedPoints(drawing_quadrilateral)[3]

\* C36: while the quadrilateral is not complete its four corner-role indices
\* are None and so are the four corner getters; once it is complete, after
\* every append and update, the four indices are a permutation of 0..3 and
\* each getter returns the point stored at its index.
C36_RolesDefinedIffComplete ==
    LET ids == RoleIds(quad)
    IN  IF quad.drawing_complete
        THEN /\ Len(Points(quad)) = NB_SIDE
             /\ \A r \in 1..4 : ids[r] # None /\ Val(ids[r]) \in 0..(NB_SIDE - 1)
             /\ \A r1, r2 \in 1..4 : r1 # r2 => ids[r1] # ids[r2]
             /\ \A r \in 1..4 : RolePositions(quad)[r] = Some(Points(quad)[Val(ids[r]) + 1])
        ELSE /\ Len(Points(quad)) < NB_SIDE
             /\ \A r \in 1..4 : ids[r] = None
             /\ \A r \in 1..4 : RolePositions(quad)[r] = None

\* A corner of a complete quadrilateral has just been moved with success and
\* the top-left role is not on the point placed first.
C36_Witness ==
    /\ quad.drawing_complete
    /\ ret = Returned("update_point", 0)
    /\ quad.top_left_id # Some(0)
    /\ get_top_left(quad) # None

\* C37: a shape in progress exists only in DRAW mode with an image loaded,
\* is none of the stored shapes, is not complete and holds 1, 2 or 3 points.
C37_InProgressShape ==
    drawing_quadrilateral # None =>
       LET dq == Val(drawing_quadrilateral)
       IN  /\ mode = DRAW
           /\ image_loaded
           /\ \A i \in 1..Len(quadrilaterals) : quadrilaterals[i] # dq
           /\ ~dq.drawing_complete
           /\ Len(Points(dq)) \in 1..(NB_SIDE - 1)

\* A shape in progress with three points, behind a stored shape, on which a
\* click at any pointer position is refused: it stays at three points.
C37_Witness ==
    /\ drawing_quadrilateral # None
    /\ Len(Points(Val(drawing_quadrilateral))) = 3
    /\ Len(quadrilaterals) = 1
    /\ \A p \in scene.pts : LeftPressed(p).drawing_quadrilateral = drawing_quadrilateral

\* The points of the first n stored shapes of v are those of the current state.
StoredPointsKept(v) ==
    /\ Len(v.quadrilaterals) >= Len(quadrilaterals)
    /\ \A i \in 1..Len(quadrilaterals) :
          Points(v.quadrilaterals[i]) = Points(quadrilaterals[i])

\* C38: in DRAW mode nothing is selected, no stored shape carries the
\* selected flag and no drag is under way; no pointer event changes the
\* points of a stored shape and no key removes a shape.
C38_DrawModeHasNoSelectionOrDrag ==
    mode = DRAW =>
       /\ selected_quadrilateral_id = None
       /\ \A i \in 1..Len(quadrilaterals) : ~quadrilaterals[i].is_selected
       /\ DragCleared
       /\ \A p \in scene.pts :
             /\ \A b \in Buttons : StoredPointsKept(mousePressEvent(View, p, b))
             /\ Moved(p).quadrilaterals = quadrilaterals
       /\ mouseReleaseEvent(View).quadrilaterals = quadrilaterals
       /\ \A k \in Keys : keyPressEvent(View, k).quadrilaterals = quadrilaterals

\* DRAW mode entered again with an image and a shape stored, two points of
\* the next shape placed.
C38_Witness ==
    /\ Drawing
    /\ Len(quadrilaterals) = 1
    /\ drawing_quadrilateral # None
    /\ Len(Points(Val(drawing_quadrilateral))) = 2
    /\ keyPressEvent(View, "Key_Delete").quadrilaterals = quadrilaterals

\* C39: while no image is loaded no shape is stored, no shape is in progress,
\* nothing is selected and no drag is under way, and a button press or a
\* pointer move at any position leaves the view as it is, in either mode.
C39_NoImageNoCollection ==
    ~image_loaded =>
       /\ quadrilaterals = <<>>
       /\ drawing_quadrilateral = None
       /\ selected_quadrilateral_id = None
       /\ DragCleared
       /\ \A p \in scene.pts :
             /\ \A b \in Buttons : mousePressEvent(View, p, b) = View
             /\ Moved(p) = View

\* No image is loaded, DRAW mode has been chosen and the last event is a
\* left button press: it placed no point.
C39_Witness ==
    /\ ~image_loaded
    /\ mode = DRAW
    /\ last_call # None
    /\ Val(last_call).method = "mousePressEvent"
    /\ Val(last_call).args[2] = LeftButton
    /\ quadrilaterals = <<>>
    /\ drawing_quadrilateral = None

\* C40: a pointer move acts only on a drag begun on the shape that is still
\* selected.  A left press that changes the selection begins no drag, and
\* neither does a key that deletes a shape: the pointer moves that follow
\* either of them change the points of no stored shape.
C40_NoStaleDrag ==
    /\ Editing =>
          \A p \in scene.pts :
             LET w == LeftPressed(p)
             IN  w.selected_quadrilateral_id # selected_quadrilateral_id
                    => \A p2 \in scene.pts :
                          mouseMoveEvent(w, p2).quadrilaterals = w.quadrilaterals
    /\ \A k \in Keys :
          LET w == keyPressEvent(View, k)
          IN  Len(w.quadrilaterals) < Len(quadrilaterals)
                 => \A p2 \in scene.pts :
                       mouseMoveEvent(w, p2).quadrilaterals = w.quadrilaterals

====
